---- MODULE Spec2Model ----
(***************************************************************************)
(* A state-machine model of the DNP3 outstation session                    *)
(* (dnp3/src/outstation/session.rs).  One action per atomic step of the    *)
(* session task between two suspension points; the synchronous handlers    *)
(* are operators over the values they mutate.                              *)
(***************************************************************************)
EXTENDS Integers, Sequences, FiniteSets, TLC

VARIABLES
    pc,              \* position of the session task (which await it is suspended at)
    ret,             \* caller that sol_confirm_wait returns to
    config,          \* SessionConfig (immutable after construction)
    state,           \* SessionState
    sol_tx_buffer,   \* object area of the solicited transmit buffer
    unsol_tx_buffer, \* object area of the unsolicited transmit buffer
    database,        \* the point database as seen through DatabaseHandle
    app,             \* calls received by the application / control handler
    reader,          \* transport reader: buffered fragment and next frame id
    now,             \* the monotonic clock
    wait,            \* locals of the suspended confirm-wait futures
    runs,            \* how many times run() was entered
    obs,             \* what the last step did on the wire and on the database
    link,            \* the link reader, its byte source and its read() future
    master,          \* the master's restart task and its promise
    octet_string     \* an octet slice and the OctetString constructed from it

vars == <<pc, ret, config, state, sol_tx_buffer, unsol_tx_buffer, database,
          app, reader, now, wait, runs, obs, link, master, octet_string>>

---------------------------------------------------------------------------
(* Bounds of the model *)

MaxFrames == 3        \* fragments the transport delivers in one run
MaxFramesLoss == 4    \* fragments delivered in a run of SpecLoss
MaxFramesControl == 5 \* fragments delivered in a run of SpecControl
MaxRuns == 2          \* times run() is entered
MaxTime == 2          \* last instant of the clock
MaxEvents == 2        \* events the application adds in one run
StaticPoints == 2     \* static points selected by a class 0 READ
FragCap == 1          \* objects that fit one transmit buffer
MaxLinkFrameLength == 4 \* bytes of the link reader's buffer (one whole frame)
MaxLinkItems == 3     \* frames and stray bytes in a byte source
MaxFramesRestart == 2 \* fragments delivered in a run of SpecRestart
MaxHeaders == 2       \* object headers of a response given to the restart task
MaxValues == 2        \* values of a count header given to the restart task
MaxOctets == 257      \* longest slice given to OctetString::new
ConfirmTimeout == 1   \* config.confirm_timeout
SelectTimeout == 1    \* config.select_timeout
RetryDelay == 1       \* config.unsolicited_retry_delay

---------------------------------------------------------------------------
(* Option<T>, and small helpers *)

None == <<>>
Some(x) == <<x>>
IsSome(o) == o # <<>>
Get(o) == o[1]

Min(a, b) == IF a < b THEN a ELSE b

RECURSIVE SetToSeq(_)
SetToSeq(S) ==
    IF S = {} THEN <<>>
    ELSE LET m == CHOOSE x \in S : \A y \in S : x <= y
         IN <<m>> \o SetToSeq(S \ {m})

\* a write cursor writing `tokens` at the start of the object area
Overwrite(buf, tokens) ==
    tokens \o SubSeq(buf, Len(tokens) + 1, Len(buf))

---------------------------------------------------------------------------
(* app::Sequence : 4-bit counter *)

SeqNext(s) == (s + 1) % 16

---------------------------------------------------------------------------
(* Response headers *)

ControlFieldResponse(seq, fir, fin, con) ==
    [fir |-> fir, fin |-> fin, con |-> con, uns |-> FALSE, seq |-> seq]

ControlFieldSingleResponse(seq) == ControlFieldResponse(seq, TRUE, TRUE, FALSE)

ControlFieldUnsolicitedResponse(seq) ==
    [fir |-> TRUE, fin |-> TRUE, con |-> TRUE, uns |-> TRUE, seq |-> seq]

ResponseHeaderNew(control, function, iin) ==
    [control |-> control, function |-> function, iin |-> iin]

ResponseNew(header, size) == [header |-> header, size |-> size]

EmptySolicited(seq, iin) ==
    ResponseNew(ResponseHeaderNew(ControlFieldResponse(seq, TRUE, TRUE, FALSE),
                                  "Response", iin), 0)

ResponseSeriesNew(ecsn, fin) == [ecsn |-> ecsn, fin |-> fin]

LastValidRequestNew(seq, request_hash, response, series) ==
    [seq |-> seq, request_hash |-> request_hash,
     response |-> response, series |-> series]

\* the bytes put on the wire for `response` out of a transmit buffer
Frame(buf, response) ==
    [header |-> response.header, objects |-> SubSeq(buf, 1, response.size)]

---------------------------------------------------------------------------
(* The point database behind DatabaseHandle *)

Events == 1..MaxEvents

EventClass(e) == ((e - 1) % 3) + 1

DbInit == [ev |-> [e \in Events |-> "absent"], static |-> 0, notified |-> FALSE]

EventsIn(db, s) == { e \in Events : db.ev[e] = s }

DbUnwrittenClasses(db) ==
    { EventClass(e) : e \in EventsIn(db, "unwritten") \cup EventsIn(db, "selected") }

\* database.select(headers): class 0 selects the static points, a class
\* 1/2/3 header selects the unwritten events of that class
DbSelectHeader(db, h) ==
    IF h.kind = "Group60Var1" THEN [db EXCEPT !.static = StaticPoints]
    ELSE IF h.kind \in {"Group60Var2", "Group60Var3", "Group60Var4"}
    THEN LET c == CASE h.kind = "Group60Var2" -> 1
                    [] h.kind = "Group60Var3" -> 2
                    [] OTHER -> 3
         IN [db EXCEPT !.ev = [e \in Events |->
                IF db.ev[e] = "unwritten" /\ EventClass(e) = c
                THEN "selected" ELSE db.ev[e]]]
    ELSE db

RECURSIVE DbSelect(_, _)
DbSelect(db, headers) ==
    IF headers = <<>> THEN db
    ELSE DbSelect(DbSelectHeader(db, Head(headers)), Tail(headers))

DbSelectIin2(headers) ==
    IF \E i \in 1..Len(headers) :
          headers[i].kind \notin {"Group60Var1", "Group60Var2", "Group60Var3", "Group60Var4"}
    THEN {"NO_FUNC_CODE_SUPPORT"} ELSE {}

\* database.write_response_headers(cursor): selected events first, then the
\* selected static points, as many as fit; what is written is marked written
DbWriteResponseHeaders(db) ==
    LET selEv  == SetToSeq(EventsIn(db, "selected"))
        nEv    == Min(Len(selEv), FragCap)
        wrote  == { selEv[i] : i \in 1..nEv }
        nSt    == Min(db.static, FragCap - nEv)
        first  == StaticPoints - db.static
        tokens == [i \in 1..nEv |-> <<"ev", selEv[i], "">>]
                  \o [k \in 1..nSt |-> <<"st", first + k, "">>]
    IN [db |-> [db EXCEPT !.ev = [e \in Events |->
                                    IF e \in wrote THEN "written" ELSE db.ev[e]],
                          !.static = db.static - nSt],
        tokens |-> tokens,
        complete |-> (Len(selEv) = nEv) /\ (db.static = nSt),
        has_events |-> nEv > 0]

NeedConfirm(info) == info.has_events \/ ~info.complete

\* database.write_unsolicited(classes, cursor)
DbWriteUnsolicited(db, classes) ==
    LET cand   == SetToSeq({ e \in EventsIn(db, "unwritten") : EventClass(e) \in classes })
        n      == Min(Len(cand), FragCap)
        wrote  == { cand[i] : i \in 1..n }
    IN [db |-> [db EXCEPT !.ev = [e \in Events |->
                    IF e \in wrote THEN "written" ELSE db.ev[e]]],
        tokens |-> [i \in 1..n |-> <<"ev", cand[i], "">>],
        count |-> n]

DbClearWrittenEvents(db) ==
    [db EXCEPT !.ev = [e \in Events |->
        IF db.ev[e] = "written" THEN "cleared" ELSE db.ev[e]]]

DbReset(db) ==
    [db EXCEPT !.ev = [e \in Events |->
                 IF db.ev[e] \in {"selected", "written"} THEN "unwritten" ELSE db.ev[e]],
               !.static = 0]

---------------------------------------------------------------------------
(* Object headers of a request.  A header is [kind, items]; an item is      *)
(* <<value, index>>.  request.objects is [ok, err, headers].                *)

Hdr(kind, items) == [kind |-> kind, items |-> items]

ObjectsOk(headers) == [ok |-> TRUE, err |-> "", headers |-> headers]
ObjectsErr(err) == [ok |-> FALSE, err |-> err, headers |-> <<>>]

\* HeaderCollection::hash: a digest of the object headers
ObjectHash(headers) == headers

\* xxh64(request.raw_fragment, 0): a digest of the application fragment
\* bytes (control octet, function code, object headers)
Xxh64(request) ==
    <<request.seq, request.uns, request.function, request.objects>>

\* FunctionCode::get_function_info().objects_allowed
ObjectsAllowed(function) ==
    function \notin {"Confirm", "DelayMeasure", "RecordCurrentTime",
                     "ColdRestart", "WarmRestart"}

---------------------------------------------------------------------------
(* outstation::control : SelectState and the control collection *)

SelectStateNew(seq, frame_id, time, object_hash) ==
    [seq |-> seq, frame_id |-> frame_id, time |-> time, object_hash |-> object_hash]

MatchOperate(s, timeout, seq, frame_id, object_hash) ==
    IF SeqNext(s.seq) # seq THEN "NoSelect"
    ELSE IF s.frame_id + 1 # frame_id THEN "NoSelect"
    ELSE IF s.object_hash # object_hash THEN "NoSelect"
    ELSE IF now - s.time > timeout THEN "Timeout"
    ELSE "Ok"

IsControlHeader(h) == h.kind = "Group12Var1"

\* ControlCollection::from
ControlsOk(headers) == \A i \in 1..Len(headers) : IsControlHeader(headers[i])

RECURSIVE ControlPoints(_)
ControlPoints(headers) ==
    IF headers = <<>> THEN <<>>
    ELSE [i \in 1..Len(Head(headers).items) |-> Head(headers).items[i][2]]
         \o ControlPoints(Tail(headers))

\* what the application's ControlHandler answers for a point
HandlerStatus(index) == IF index < 8 THEN "Success" ELSE "NotSupported"

\* number of points the handler is called for
Handled(points) ==
    IF IsSome(config.max_controls_per_request)
    THEN Min(Len(points), Get(config.max_controls_per_request))
    ELSE Len(points)

PointStatus(points, i) ==
    IF i > Handled(points) THEN "NotSupported" ELSE HandlerStatus(points[i])

AggregateStatus(points) ==
    IF \A i \in 1..Len(points) : PointStatus(points, i) = "Success" THEN "Success"
    ELSE LET k == CHOOSE i \in 1..Len(points) :
                    /\ PointStatus(points, i) # "Success"
                    /\ \A j \in 1..(i - 1) : PointStatus(points, j) = "Success"
         IN PointStatus(points, k)

\* select_with_response / operate_with_response: one status object per point
ControlTokens(points) ==
    [i \in 1..Len(points) |-> <<"ctl", points[i], PointStatus(points, i)>>]

\* respond_with_status
StatusTokens(points, status) ==
    [i \in 1..Len(points) |-> <<"ctl", points[i], status>>]

\* the write cursor returns WriteError when the objects do not fit the buffer
WriteFails(tokens) == Len(tokens) > FragCap

\* what the cursor holds after the write
Written(tokens) == SubSeq(tokens, 1, Min(Len(tokens), FragCap))

\* the Result<CommandStatus, WriteError> of select_with_response and
\* operate_with_response
ControlResult(points) ==
    IF WriteFails(ControlTokens(points)) THEN "WriteError" ELSE AggregateStatus(points)

---------------------------------------------------------------------------
(* Synchronous handlers.  w = [state, database, sol_tx_buffer, app] is what *)
(* they mutate; each returns the new w and its result.                      *)

World(st, db, buf, a) ==
    [state |-> st, database |-> db, sol_tx_buffer |-> buf, app |-> a]

Called(a, what) == [a EXCEPT ![what] = @ + 1]

GetResponseIin(st, db) ==
    LET restart == IF st.restart_iin_asserted THEN {"RESTART"} ELSE {}
        classes == DbUnwrittenClasses(db)
        events  == (IF 1 \in classes THEN {"CLASS_1_EVENTS"} ELSE {})
                   \cup (IF 2 \in classes THEN {"CLASS_2_EVENTS"} ELSE {})
                   \cup (IF 3 \in classes THEN {"CLASS_3_EVENTS"} ELSE {})
        bcast   == IF IsSome(st.last_broadcast_type) THEN {"BROADCAST"} ELSE {}
    IN [iin |-> restart \cup events \cup bcast,
        state |-> IF IsSome(st.last_broadcast_type)
                     /\ Get(st.last_broadcast_type) # "Mandatory"
                  THEN [st EXCEPT !.last_broadcast_type = None]
                  ELSE st]

RepeatSolicited(buf, response) == Frame(buf, response)

ForceCon(st, response) ==
    IF st.last_broadcast_type = Some("Mandatory") /\ ~response.header.control.con
    THEN [response EXCEPT !.header.control.con = TRUE]
    ELSE response

\* the tail of write_solicited: the response is transmitted and returned
SentSolicited(w, response) ==
    [w |-> w, response |-> response, frame |-> RepeatSolicited(w.sol_tx_buffer, response)]

\* write_solicited, g being what get_response_iin returned
WriteSolicitedIin(w, response, g) ==
    SentSolicited([w EXCEPT !.state = g.state],
                  ForceCon(g.state, [response EXCEPT !.header.iin = @ \cup g.iin]))

WriteSolicited(w, response) ==
    WriteSolicitedIin(w, response, GetResponseIin(w.state, w.database))

\* the IIN2 bits for what the application's write_absolute_time returned
WriteTimeIin(result) ==
    CASE result = "NotSupported" -> {"NO_FUNC_CODE_SUPPORT"}
      [] result = "InvalidValue" -> {"PARAMETER_ERROR"}
      [] OTHER -> {}

\* the application is asked to set the clock
WriteAbsoluteTime(w) ==
    [w |-> [w EXCEPT !.app = Called(@, "write_absolute_time")],
     iin2 |-> WriteTimeIin(config.write_absolute_time)]

\* Timestamp::checked_add fails when the sum exceeds Timestamp::MAX_VALUE; a
\* Group50Var3 item holds its time as the room left below that maximum
AddOverflows(room, delay) == delay > room

\* a handler that keeps the recorded time when the application refuses
HandleG50v3Kept(w, items) ==
    IF Len(items) # 1 THEN [w |-> w, iin2 |-> {"PARAMETER_ERROR"}]
    ELSE IF ~IsSome(w.state.last_recorded_time)
    THEN [w |-> w, iin2 |-> {"PARAMETER_ERROR"}]
    ELSE IF now < Get(w.state.last_recorded_time)
    THEN [w |-> w, iin2 |-> {"PARAMETER_ERROR"}]
    ELSE IF AddOverflows(items[1][1], now - Get(w.state.last_recorded_time))
    THEN [w |-> w, iin2 |-> {"PARAMETER_ERROR"}]
    ELSE IF config.write_absolute_time = "Ok"
    THEN WriteAbsoluteTime([w EXCEPT !.state.last_recorded_time = None])
    ELSE WriteAbsoluteTime(w)

HandleG50v3(w, items) ==
    IF Len(items) # 1 THEN [w |-> w, iin2 |-> {"PARAMETER_ERROR"}]
    ELSE IF ~IsSome(w.state.last_recorded_time)
    THEN [w |-> w, iin2 |-> {"PARAMETER_ERROR"}]
    ELSE IF now < Get(w.state.last_recorded_time)
    THEN [w |-> w, iin2 |-> {"PARAMETER_ERROR"}]
    ELSE IF AddOverflows(items[1][1], now - Get(w.state.last_recorded_time))
    THEN [w |-> w, iin2 |-> {"PARAMETER_ERROR"}]
    ELSE WriteAbsoluteTime([w EXCEPT !.state.last_recorded_time = None])

ClearRestartIin(w) ==
    [w EXCEPT !.state.restart_iin_asserted = FALSE,
              !.app = Called(@, "clear_restart_iin")]

\* a WRITE that takes any value written to index 7 as clearing the restart bit
ClearsRestartAnyValue(item) == item[2] = 7

\* the loop over the Group80Var1 items: only index 7 written false is legal
ClearsRestart(item) == item[2] = 7 /\ item[1] = 0

WithIin2(r, iin2) == [w |-> r.w, iin2 |-> iin2 \cup r.iin2]

RECURSIVE WriteG80v1(_, _)
WriteG80v1(w, items) ==
    IF items = <<>> THEN [w |-> w, iin2 |-> {}]
    ELSE IF ClearsRestart(Head(items))
    THEN WriteG80v1(ClearRestartIin(w), Tail(items))
    ELSE WithIin2(WriteG80v1(w, Tail(items)), {"PARAMETER_ERROR"})

\* the match on the single object header of a WRITE
WriteHeader(w, header) ==
    CASE header.kind = "Group80Var1" -> WriteG80v1(w, header.items)
      [] header.kind = "Group50Var1" ->
           IF Len(header.items) = 1
           THEN WriteAbsoluteTime(w)
           ELSE [w |-> w, iin2 |-> {"PARAMETER_ERROR"}]
      [] header.kind = "Group50Var3" -> HandleG50v3(w, header.items)
      [] OTHER -> [w |-> w, iin2 |-> {"NO_FUNC_CODE_SUPPORT"}]

EmptyResponse(r, seq) == [w |-> r.w, response |-> Some(EmptySolicited(seq, r.iin2))]

HandleWrite(w, seq, headers) ==
    EmptyResponse(IF Len(headers) = 1 THEN WriteHeader(w, headers[1])
                  ELSE [w |-> w, iin2 |-> {}],
                  seq)

\* a response that carries `tokens` written after the header
ObjectResponse(w, seq, tokens, iin) ==
    [w |-> [w EXCEPT !.sol_tx_buffer = Overwrite(@, tokens)],
     response |-> Some(ResponseNew(
        ResponseHeaderNew(ControlFieldResponse(seq, TRUE, TRUE, FALSE), "Response", iin),
        Len(tokens)))]

HandleDelayMeasure(w, seq) ==
    ObjectResponse([w EXCEPT !.app = Called(@, "get_processing_delay_ms")],
                   seq, << <<"g52v2", 0, "">> >>, {})

HandleRecordCurrentTime(w, seq) ==
    [w |-> [w EXCEPT !.state.last_recorded_time = Some(now)],
     response |-> Some(EmptySolicited(seq, {}))]

\* a handler that reports every delay as Group52Var2
HandleRestartFine(w, seq, delay) ==
    IF ~IsSome(delay)
    THEN [w |-> w, response |-> Some(EmptySolicited(seq, {"NO_FUNC_CODE_SUPPORT"}))]
    ELSE ObjectResponse(w, seq, << <<"g52v2", Get(delay)[2], "">> >>, {})

\* delay is the application's answer: None, or Some(<<unit, value>>)
HandleRestart(w, seq, delay) ==
    IF ~IsSome(delay)
    THEN [w |-> w, response |-> Some(EmptySolicited(seq, {"NO_FUNC_CODE_SUPPORT"}))]
    ELSE IF Get(delay)[1] = "Seconds"
    THEN ObjectResponse(w, seq, << <<"g52v1", Get(delay)[2], "">> >>, {})
    ELSE ObjectResponse(w, seq, << <<"g52v2", Get(delay)[2], "">> >>, {})

StatusIin(status) == IF status = "NotSupported" THEN {"PARAMETER_ERROR"} ELSE {}

HandleDirectOperate(w, seq, headers) ==
    IF ~ControlsOk(headers)
    THEN [w |-> w, response |-> Some(EmptySolicited(seq, {"PARAMETER_ERROR"}))]
    ELSE LET points == ControlPoints(headers)
             w1 == [w EXCEPT !.app = [@ EXCEPT !.transaction = @ + 1,
                                               !.operate = @ + Handled(points)]]
         IN ObjectResponse(w1, seq, Written(ControlTokens(points)),
                           StatusIin(ControlResult(points)))

HandleDirectOperateNoAck(w, headers) ==
    IF ~ControlsOk(headers)
    THEN [w |-> w, response |-> None]
    ELSE [w |-> [w EXCEPT !.app = [@ EXCEPT !.transaction = @ + 1,
                                            !.operate = @ + Handled(ControlPoints(headers))]],
          response |-> None]

HandleSelect(w, seq, frame_id, headers) ==
    IF ~ControlsOk(headers)
    THEN [w |-> w, response |-> Some(EmptySolicited(seq, {"PARAMETER_ERROR"}))]
    ELSE LET points == ControlPoints(headers)
             result == ControlResult(points)
             w1 == [w EXCEPT !.app = [@ EXCEPT !.transaction = @ + 1,
                                               !.select = @ + Handled(points)]]
             w2 == IF result = "Success"
                   THEN [w1 EXCEPT !.state.select =
                            Some(SelectStateNew(seq, frame_id, now, ObjectHash(headers)))]
                   ELSE w1
         IN ObjectResponse(w2, seq, Written(ControlTokens(points)), StatusIin(result))

\* an OPERATE that runs whenever some SELECT was accepted before
HandleOperateUnmatched(w, seq, frame_id, headers) ==
    IF ~ControlsOk(headers)
    THEN [w |-> w, response |-> Some(EmptySolicited(seq, {"PARAMETER_ERROR"}))]
    ELSE IF ~IsSome(w.state.select)
    THEN ObjectResponse(w, seq, StatusTokens(ControlPoints(headers), "NoSelect"), {})
    ELSE ObjectResponse(
            [w EXCEPT !.app = [@ EXCEPT !.transaction = @ + 1,
                                        !.operate = @ + Handled(ControlPoints(headers))]],
            seq, ControlTokens(ControlPoints(headers)),
            StatusIin(AggregateStatus(ControlPoints(headers))))

\* handle_operate where every write fits; OperatePanics is the case in
\* which one of its unwrap() calls meets a WriteError
HandleOperate(w, seq, frame_id, headers) ==
    IF ~ControlsOk(headers)
    THEN [w |-> w, response |-> Some(EmptySolicited(seq, {"PARAMETER_ERROR"}))]
    ELSE LET points == ControlPoints(headers)
             m == IF IsSome(w.state.select)
                  THEN MatchOperate(Get(w.state.select), config.select_timeout,
                                    seq, frame_id, ObjectHash(headers))
                  ELSE "NoSelect"
         IN IF m # "Ok"
            THEN ObjectResponse(w, seq, StatusTokens(points, m), StatusIin(m))
            ELSE ObjectResponse(
                    [w EXCEPT !.app = [@ EXCEPT !.transaction = @ + 1,
                                                !.operate = @ + Handled(points)]],
                    seq, ControlTokens(points), StatusIin(AggregateStatus(points)))

FreezeIin(headers) ==
    IF \E i \in 1..Len(headers) : headers[i].kind # "Group20Var0"
    THEN {"NO_FUNC_CODE_SUPPORT"} ELSE {}

FreezeCalls(headers) ==
    Cardinality({ i \in 1..Len(headers) : headers[i].kind = "Group20Var0" })

HandleFreeze(w, seq, headers, respond) ==
    [w |-> [w EXCEPT !.app = [@ EXCEPT !.transaction = @ + 1,
                                       !.freeze_counter = @ + FreezeCalls(headers)]],
     response |-> IF respond THEN Some(EmptySolicited(seq, FreezeIin(headers))) ELSE None]

ClassOfHeader(kind) ==
    CASE kind = "Group60Var2" -> 1
      [] kind = "Group60Var3" -> 2
      [] kind = "Group60Var4" -> 3
      [] OTHER -> 0

HandleEnableOrDisableUnsolicited(w, enable, seq, headers) ==
    IF ~config.unsolicited
    THEN [w |-> w, response |-> Some(EmptySolicited(seq, {"NO_FUNC_CODE_SUPPORT"}))]
    ELSE LET named == { ClassOfHeader(headers[i].kind) : i \in 1..Len(headers) } \ {0}
             iin2  == IF \E i \in 1..Len(headers) : ClassOfHeader(headers[i].kind) = 0
                      THEN {"NO_FUNC_CODE_SUPPORT"} ELSE {}
             old   == w.state.enabled_unsolicited_classes
         IN [w |-> [w EXCEPT !.state.enabled_unsolicited_classes =
                        IF enable THEN old \cup named ELSE old \ named],
             response |-> Some(EmptySolicited(seq, iin2))]

GetIin2(function, headers) ==
    IF ObjectsAllowed(function) THEN {}
    ELSE IF headers = <<>> THEN {} ELSE {"PARAMETER_ERROR"}

\* the match on the function code in handle_non_read
HandleFunction(w, function, seq, frame_id, headers) ==
    CASE function = "Write" -> HandleWrite(w, seq, headers)
      [] function = "DelayMeasure" -> HandleDelayMeasure(w, seq)
      [] function = "RecordCurrentTime" -> HandleRecordCurrentTime(w, seq)
      [] function = "ColdRestart" ->
           HandleRestart([w EXCEPT !.app = Called(@, "cold_restart")],
                         seq, config.restart_delay)
      [] function = "WarmRestart" ->
           HandleRestart([w EXCEPT !.app = Called(@, "warm_restart")],
                         seq, config.restart_delay)
      [] function = "Select" -> HandleSelect(w, seq, frame_id, headers)
      [] function = "Operate" -> HandleOperate(w, seq, frame_id, headers)
      [] function = "DirectOperate" -> HandleDirectOperate(w, seq, headers)
      [] function = "DirectOperateNoResponse" -> HandleDirectOperateNoAck(w, headers)
      [] function = "ImmediateFreeze" -> HandleFreeze(w, seq, headers, TRUE)
      [] function = "ImmediateFreezeNoResponse" -> HandleFreeze(w, seq, headers, FALSE)
      [] function = "FreezeClear" -> HandleFreeze(w, seq, headers, TRUE)
      [] function = "FreezeClearNoResponse" -> HandleFreeze(w, seq, headers, FALSE)
      [] function = "EnableUnsolicited" ->
           HandleEnableOrDisableUnsolicited(w, TRUE, seq, headers)
      [] function = "DisableUnsolicited" ->
           HandleEnableOrDisableUnsolicited(w, FALSE, seq, headers)
      [] OTHER ->
           [w |-> w, response |-> Some(EmptySolicited(seq, {"NO_FUNC_CODE_SUPPORT"}))]

\* the tail of handle_non_read: get_iin2 is or-ed into the response, if any
OrIin2(r, iin2) ==
    [w |-> r.w,
     response |-> IF IsSome(r.response)
                  THEN Some([Get(r.response) EXCEPT !.header.iin = @ \cup iin2])
                  ELSE None]

HandleNonRead(w, function, seq, frame_id, headers) ==
    OrIin2(HandleFunction(w, function, seq, frame_id, headers), GetIin2(function, headers))

---------------------------------------------------------------------------
(* Fragment classification *)

\* impl From<ObjectParseError> for Iin2
Iin2From(err) ==
    CASE err = "InsufficientBytes" -> {"PARAMETER_ERROR"}
      [] err = "InvalidQualifierForVariation" -> {"NO_FUNC_CODE_SUPPORT"}
      [] err = "InvalidRange" -> {"PARAMETER_ERROR"}
      [] err = "UnknownGroupVariation" -> {"OBJECT_UNKNOWN"}
      [] OTHER -> {"PARAMETER_ERROR"}

\* a session that recognises no duplicate
IsRepeatNever(st, request) == FALSE

IsRepeat(st, request) ==
    /\ IsSome(st.last_valid_request)
    /\ Get(st.last_valid_request).seq = request.seq
    /\ Get(st.last_valid_request).request_hash = Xxh64(request)

Classify(st, request) ==
    IF request.function = "Confirm"
    THEN (IF request.uns THEN "UnsolicitedConfirm" ELSE "SolicitedConfirm")
    ELSE IF IsSome(request.broadcast) THEN "Broadcast"
    ELSE IF ~request.objects.ok THEN "MalformedRequest"
    ELSE IF IsRepeat(st, request)
    THEN (IF request.function = "Read" THEN "RepeatRead" ELSE "RepeatNonRead")
    ELSE IF request.function = "Read" THEN "NewRead" ELSE "NewNonRead"

---------------------------------------------------------------------------
(* Read responses and broadcast *)

\* write_read_response, info being what write_response_headers returned
ReadResponse(w, fir, seq, iin2, info) ==
    [w |-> [w EXCEPT !.database = info.db,
                     !.sol_tx_buffer = Overwrite(@, info.tokens)],
     response |-> ResponseNew(
        ResponseHeaderNew(ControlFieldResponse(seq, fir, info.complete, NeedConfirm(info)),
                          "Response", iin2),
        Len(info.tokens)),
     series |-> IF NeedConfirm(info)
                THEN Some(ResponseSeriesNew(seq, info.complete)) ELSE None]

\* a read response that marks every fragment as the first of its series
WriteReadResponseFir(w, fir, seq, iin2) ==
    ReadResponse(w, TRUE, seq, iin2, DbWriteResponseHeaders(w.database))

WriteReadResponse(w, fir, seq, iin2) ==
    ReadResponse(w, fir, seq, iin2, DbWriteResponseHeaders(w.database))

WriteFirstReadResponse(w, seq, headers) ==
    WriteReadResponse([w EXCEPT !.database = DbSelect(@, headers)],
                      TRUE, seq, DbSelectIin2(headers))

ProcessBroadcastGetAction(w, request) ==
    IF ~config.broadcast THEN w
    ELSE IF ~request.objects.ok THEN w
    ELSE LET f == request.function
             h == request.objects.headers
         IN CASE f = "Write" -> HandleWrite(w, request.seq, h).w
              [] f = "DirectOperateNoResponse" -> HandleDirectOperateNoAck(w, h).w
              [] f = "ImmediateFreezeNoResponse" -> HandleFreeze(w, request.seq, h, FALSE).w
              [] f = "FreezeClearNoResponse" -> HandleFreeze(w, request.seq, h, FALSE).w
              [] f = "RecordCurrentTime" -> HandleRecordCurrentTime(w, request.seq).w
              [] f = "DisableUnsolicited" ->
                    HandleEnableOrDisableUnsolicited(w, FALSE, request.seq, h).w
              [] f = "EnableUnsolicited" ->
                    HandleEnableOrDisableUnsolicited(w, TRUE, request.seq, h).w
              [] OTHER -> w

ProcessBroadcast(w, mode, request) ==
    ProcessBroadcastGetAction([w EXCEPT !.state.last_broadcast_type = Some(mode)], request)

\* the sequence number an error response answers, if any
ErrorSeq(request) ==
    IF request.err = "InsufficientBytes" THEN None ELSE Some(request.seq)

\* outcome of a handler that may send one solicited fragment
Sent(w, response, frame) == [w |-> w, response |-> response, frame |-> frame]

SentOf(s) == Sent(s.w, Some(s.response), Some(s.frame))

\* write_solicited of an optional response
MaybeWriteSolicited(r) ==
    IF IsSome(r.response) THEN SentOf(WriteSolicited(r.w, Get(r.response)))
    ELSE Sent(r.w, None, None)

WriteErrorResponse(w, request) ==
    IF IsSome(ErrorSeq(request))
    THEN SentOf(WriteSolicited(w, EmptySolicited(Get(ErrorSeq(request)),
                                                 {"NO_FUNC_CODE_SUPPORT"})))
    ELSE Sent(w, None, None)

---------------------------------------------------------------------------
(* Idle-state request processing *)

UpdateFrameId(st, id) ==
    IF IsSome(st.select)
    THEN [st EXCEPT !.select = Some([Get(st.select) EXCEPT !.frame_id = id])]
    ELSE st

\* what process_request_from_idle returns: the new w and the
\* Option<LastValidRequest>
Processed(w, seq, hash, response, series) ==
    [w |-> w, result |-> Some(LastValidRequestNew(seq, hash, response, series))]

ProcessedRead(r, seq, hash) == Processed(r.w, seq, hash, Some(r.response), r.series)

ProcessedNonRead(r, seq, hash) == Processed(r.w, seq, hash, r.response, None)

\* a Broadcast arm that answers the broadcast like a request
ProcessedBroadcastAnswered(w, request) ==
    Processed(ProcessBroadcast(w, Get(request.broadcast), request), request.seq,
              Xxh64(request), Some(EmptySolicited(request.seq, {})), None)

\* the Broadcast arm of process_request_from_idle
ProcessedBroadcast(w, request) ==
    [w |-> ProcessBroadcast(w, Get(request.broadcast), request), result |-> None]

\* a process_request_from_idle that echoes the stored response to a duplicate
\* READ as it does for a duplicate non-READ
ProcessRequestFromIdleEcho(w, request) ==
    LET type == Classify(w.state, request)
        seq  == request.seq
        hash == Xxh64(request)
    IN CASE type = "MalformedRequest" ->
              Processed(w, seq, hash,
                        Some(EmptySolicited(seq, Iin2From(request.objects.err))), None)
         [] type = "NewRead" ->
              ProcessedRead(WriteFirstReadResponse(w, seq, request.objects.headers),
                            seq, hash)
         [] type = "NewNonRead" ->
              ProcessedNonRead(HandleNonRead(w, request.function, seq, request.id,
                                             request.objects.headers),
                               seq, hash)
         [] type \in {"RepeatRead", "RepeatNonRead"} ->
              Processed([w EXCEPT !.state = UpdateFrameId(@, request.id)], seq, hash,
                        Get(w.state.last_valid_request).response, None)
         [] type = "Broadcast" -> ProcessedBroadcast(w, request)
         [] OTHER -> [w |-> w, result |-> None]

ProcessRequestFromIdle(w, request) ==
    LET type == Classify(w.state, request)
        seq  == request.seq
        hash == Xxh64(request)
    IN CASE type = "MalformedRequest" ->
              Processed(w, seq, hash,
                        Some(EmptySolicited(seq, Iin2From(request.objects.err))), None)
         [] type \in {"NewRead", "RepeatRead"} ->
              ProcessedRead(WriteFirstReadResponse(w, seq, request.objects.headers),
                            seq, hash)
         [] type = "NewNonRead" ->
              ProcessedNonRead(HandleNonRead(w, request.function, seq, request.id,
                                             request.objects.headers),
                               seq, hash)
         [] type = "RepeatNonRead" ->
              Processed([w EXCEPT !.state = UpdateFrameId(@, request.id)], seq, hash,
                        Get(w.state.last_valid_request).response, None)
         [] type = "Broadcast" -> ProcessedBroadcast(w, request)
         [] OTHER -> [w |-> w, result |-> None]

\* the series the caller waits on: the response's own, or the synthetic
\* one when a confirmation was added because of a broadcast
SeriesFor(response, series) ==
    IF response.header.control.con /\ ~IsSome(series)
    THEN Some(ResponseSeriesNew(response.header.control.seq, TRUE))
    ELSE series

\* handle_one_request_from_idle after write_solicited returned s
Responded(s, result, series) ==
    [w |-> [s.w EXCEPT !.state.last_valid_request =
                Some([result EXCEPT !.response = Some(s.response), !.series = series])],
     frame |-> Some(s.frame), series |-> series]

\* handle_one_request_from_idle once process_request_from_idle returned
\* Some(result)
RespondFromIdle(w, result) ==
    IF ~IsSome(result.response)
    THEN [w |-> [w EXCEPT !.state.last_valid_request = Some(result)],
          frame |-> None, series |-> result.series]
    ELSE LET s == WriteSolicited(w, Get(result.response))
         IN Responded(s, result, SeriesFor(s.response, result.series))

AfterProcess(p) ==
    IF ~IsSome(p.result) THEN [w |-> p.w, frame |-> None, series |-> None]
    ELSE RespondFromIdle(p.w, Get(p.result))

\* the Request arm of handle_one_request_from_idle, up to the confirm wait
HandleRequestFromIdle(w, request) == AfterProcess(ProcessRequestFromIdle(w, request))

---------------------------------------------------------------------------
(* link::Reader (src/link/reader.rs) over a link parser.  A byte is one of  *)
(* "sync", "len0", "len2", a body byte, or "zero" (the initial fill).  A    *)
(* frame is "sync", a length byte and that many body bytes.                 *)

BodyLen(byte) == IF byte = "len0" THEN 0 ELSE 2
IsLen(byte) == byte \in {"len0", "len2"}

ParserNew == [state |-> "FindSync", len |-> 0]

Parsed(parser, consumed, result, frame) ==
    [parser |-> parser, consumed |-> consumed, result |-> result, frame |-> frame]

\* Parser::parse(cursor, payload): consumes bytes of the cursor until a frame
\* is complete ("Frame"), a header is invalid ("Err") or more bytes are
\* needed ("None"); a body is consumed only when all of it is in the cursor
RECURSIVE Parse(_, _, _)
Parse(parser, bytes, n) ==
    IF parser.state = "ReadBody"
    THEN IF Len(bytes) < parser.len
         THEN Parsed(parser, n, "None", None)
         ELSE Parsed(ParserNew, n + parser.len, "Frame",
                     Some(SubSeq(bytes, 1, parser.len)))
    ELSE IF bytes = <<>> THEN Parsed(parser, n, "None", None)
    ELSE IF parser.state = "FindSync"
    THEN Parse(IF Head(bytes) = "sync" THEN [state |-> "ReadHeader", len |-> 0]
               ELSE parser,
               Tail(bytes), n + 1)
    ELSE IF IsLen(Head(bytes))
    THEN Parse([state |-> "ReadBody", len |-> BodyLen(Head(bytes))], Tail(bytes), n + 1)
    ELSE Parsed(ParserNew, n + 1, "Err", None)

ReaderNew ==
    [parser |-> ParserNew, begin |-> 0, end |-> 0,
     buffer |-> [i \in 1..MaxLinkFrameLength |-> "zero"]]

\* the top of the loop: an empty window restarts at offset 0
Rewind(r) == IF r.begin = r.end THEN [r EXCEPT !.begin = 0, !.end = 0] ELSE r

Unparsed(r) == SubSeq(r.buffer, r.begin + 1, r.end)

\* a reader that never moves its window back
CompactNever(r) == r

\* buffer.copy_within(begin..end, 0) when the window touches the end
Compact(r) ==
    IF r.end = MaxLinkFrameLength
    THEN [r EXCEPT !.buffer = [i \in 1..MaxLinkFrameLength |->
                                 IF i <= r.end - r.begin THEN r.buffer[r.begin + i]
                                 ELSE r.buffer[i]],
                   !.end = r.end - r.begin,
                   !.begin = 0]
    ELSE r

Advance(r, p) == [r EXCEPT !.parser = p.parser, !.begin = @ + p.consumed]

\* one pass of the loop from its top to a return or to the io.read await
Passed(r, p) ==
    IF p.result = "Err"
    THEN [reader |-> [r EXCEPT !.parser = p.parser], out |-> "ParseError",
          frame |-> None, consumed |-> 0, parsed |-> SubSeq(Unparsed(r), 1, p.consumed)]
    ELSE IF p.result = "Frame"
    THEN [reader |-> Advance(r, p), out |-> "Frame", frame |-> p.frame,
          consumed |-> p.consumed, parsed |-> SubSeq(Unparsed(r), 1, p.consumed)]
    ELSE [reader |-> Compact(Advance(r, p)), out |-> "Pending", frame |-> None,
          consumed |-> p.consumed, parsed |-> SubSeq(Unparsed(r), 1, p.consumed)]

ReadLoop(r) == Passed(Rewind(r), Parse(Rewind(r).parser, Unparsed(Rewind(r)), 0))

\* io.read(&mut buffer[end..]) completed with `bytes`
Filled(r, bytes) ==
    [r EXCEPT !.buffer = [i \in 1..MaxLinkFrameLength |->
                            IF i > r.end /\ i <= r.end + Len(bytes)
                            THEN bytes[i - r.end] ELSE r.buffer[i]],
              !.end = @ + Len(bytes)]

\* Reader::reset
ReaderResetFields(r) == [r EXCEPT !.begin = 0, !.end = 0, !.parser = ParserNew]

\* the drop of a future that owns the parser
DropFutureWithParser(l) == [l EXCEPT !.pc = "Returned", !.reader.parser = ParserNew]

\* the future returned by read() is dropped while it awaits io.read: the
\* reader it borrows keeps its fields
DropFuture(l) == [l EXCEPT !.pc = "Returned"]

\* link = the reader, the position of its read() future, the byte source,
\* what read() has returned so far and the bytes the parser has taken from
\* its cursor so far (fed, kept up to one byte more than the source holds)
LinkNew(source) ==
    [reader |-> ReaderNew, pc |-> "Returned", source |-> source, pos |-> 0,
     consumed |-> 0, frames |-> <<>>, result |-> None, cut |-> FALSE, fed |-> <<>>]

\* read() ran up to a return or up to the await
Polled(l, r, pos) ==
    LET t == ReadLoop(r)
    IN [l EXCEPT !.reader = t.reader,
                 !.pos = pos,
                 !.consumed = @ + t.consumed,
                 !.fed = SubSeq(@ \o t.parsed, 1,
                                Min(Len(@ \o t.parsed), Len(l.source) + 1)),
                 !.pc = IF t.out = "Pending" THEN "Reading" ELSE "Returned",
                 !.frames = IF t.out = "Frame" THEN Append(@, Get(t.frame)) ELSE @,
                 !.result = IF t.out = "Pending" THEN None ELSE Some(t.out)]

---------------------------------------------------------------------------
(* master::tasks::restart (src/dnp3/src/master/tasks/restart.rs)            *)

\* std::time::Duration::from_secs and from_millis
DurationFromSecs(n) == [secs |-> n, nanos |-> 0]
DurationFromMillis(n) == [secs |-> n \div 1000, nanos |-> (n % 1000) * 1000000]

\* Result<Duration, TaskError>
TaskError(kind, err) == [kind |-> kind, err |-> err]
Ok(duration) == [ok |-> TRUE, value |-> duration, err |-> TaskError("", "")]
Err(e) == [ok |-> FALSE, value |-> DurationFromSecs(0), err |-> e]
UnexpectedResponseHeaders == TaskError("UnexpectedResponseHeaders", "")
MalformedResponse(err) == TaskError("MalformedResponse", err)

\* an object header as the master parses it: details is "Count" for the
\* count qualifiers, values the objects it holds
CountHeader(variation, values) ==
    [details |-> "Count", variation |-> variation, values |-> values]
RangeHeader(variation, values) ==
    [details |-> "Range", variation |-> variation, values |-> values]

\* the object headers of a response as the master's parser yields them from
\* the objects of a frame
ParsedToken(token) ==
    IF token[1] = "g52v1" THEN CountHeader("Group52Var1", <<[time |-> token[2] % 2^16]>>)
    ELSE IF token[1] = "g52v2"
    THEN CountHeader("Group52Var2", <<[time |-> token[2] % 2^16]>>)
    ELSE RangeHeader(token[1], <<token[2]>>)

ToResponse(frame) ==
    [header |-> frame.header,
     objects |-> ObjectsOk([i \in 1..Len(frame.objects) |-> ParsedToken(frame.objects[i])])]

GetOnlyHeader(headers) == IF Len(headers) = 1 THEN Some(headers[1]) ELSE None
Count(header) == IF header.details = "Count" THEN Some(header) ELSE None
Single(values) == IF Len(values) = 1 THEN Some(values[1]) ELSE None

RestartTaskNew(restart_type) ==
    [restart_type |-> restart_type, alive |-> TRUE, promise |-> <<>>,
     next |-> None, response |-> None]

\* promise.complete(x) on a task that handle() consumes and that returns `next`
Completed(task, x, response) ==
    [task EXCEPT !.alive = FALSE, !.promise = Append(@, x), !.next = None,
                 !.response = Some(response)]

\* a match that takes the first value of a count header of any quantity
CompleteCountFirst(count) ==
    IF count.variation \in {"Group52Var1", "Group52Var2"} /\ count.values # <<>>
    THEN IF count.variation = "Group52Var1"
         THEN Ok(DurationFromSecs(count.values[1].time))
         ELSE Ok(DurationFromMillis(count.values[1].time))
    ELSE Err(UnexpectedResponseHeaders)

\* the final match of handle() on the count variation
CompleteCount(count) ==
    IF count.variation = "Group52Var1"
    THEN IF IsSome(Single(count.values))
         THEN Ok(DurationFromSecs(Get(Single(count.values)).time))
         ELSE Err(UnexpectedResponseHeaders)
    ELSE IF count.variation = "Group52Var2"
    THEN IF IsSome(Single(count.values))
         THEN Ok(DurationFromMillis(Get(Single(count.values)).time))
         ELSE Err(UnexpectedResponseHeaders)
    ELSE Err(UnexpectedResponseHeaders)

RestartTaskHandle(task, response) ==
    IF ~response.objects.ok
    THEN Completed(task, Err(MalformedResponse(response.objects.err)), response)
    ELSE IF ~IsSome(GetOnlyHeader(response.objects.headers))
    THEN Completed(task, Err(UnexpectedResponseHeaders), response)
    ELSE IF ~IsSome(Count(Get(GetOnlyHeader(response.objects.headers))))
    THEN Completed(task, Err(UnexpectedResponseHeaders), response)
    ELSE Completed(task,
                   CompleteCount(Get(Count(Get(GetOnlyHeader(response.objects.headers))))),
                   response)

---------------------------------------------------------------------------
(* app::measurement::OctetString (src/dnp3/src/app/measurement.rs)          *)

MAX_SIZE == 255

OctetStringOk(s) == [ok |-> TRUE, err |-> "", s |-> s]
OctetStringErr(err) == [ok |-> FALSE, err |-> err, s |-> [value |-> <<>>, len |-> 0]]

\* a constructor whose upper limit is one octet too high
OctetStringNewLoose(value) ==
    IF Len(value) = 0 THEN OctetStringErr("ZeroLength")
    ELSE IF Len(value) > 256 THEN OctetStringErr("MoreThan255Octets")
    ELSE OctetStringOk([value |-> [i \in 1..MAX_SIZE |->
                                     IF i <= Len(value) THEN value[i] ELSE 0],
                        len |-> Len(value) % 2^8])

\* OctetString::new: len is a u8, value an array of MAX_SIZE octets
OctetStringNew(value) ==
    IF Len(value) = 0 THEN OctetStringErr("ZeroLength")
    ELSE IF Len(value) > 255 THEN OctetStringErr("MoreThan255Octets")
    ELSE OctetStringOk([value |-> [i \in 1..MAX_SIZE |->
                                     IF i <= Len(value) THEN value[i] ELSE 0],
                        len |-> Len(value) % 2^8])

OctetStringValue(s) == SubSeq(s.value, 1, s.len)
OctetStringLen(s) == s.len

\* a slice given to the constructor, and what the constructor returned
Octets(input) == [input |-> input, result |-> None]

---------------------------------------------------------------------------
(* Construction *)

\* a session that is constructed ready for event-bearing unsolicited responses
SessionStateNewReady ==
    [restart_iin_asserted |-> TRUE,
     enabled_unsolicited_classes |-> {},
     last_valid_request |-> None,
     select |-> None,
     unsolicited |-> [tag |-> "Ready", deadline |-> None],
     unsolicited_seq |-> 0,
     deferred_read |-> None,
     last_recorded_time |-> None,
     last_broadcast_type |-> None]

SessionStateNew ==
    [restart_iin_asserted |-> TRUE,
     enabled_unsolicited_classes |-> {},
     last_valid_request |-> None,
     select |-> None,
     unsolicited |-> [tag |-> "NullRequired", deadline |-> None],
     unsolicited_seq |-> 0,
     deferred_read |-> None,
     last_recorded_time |-> None,
     last_broadcast_type |-> None]

\* a reset that starts the session state afresh
SessionStateResetAll(st) == SessionStateNew

SessionStateReset(st) ==
    [st EXCEPT !.last_valid_request = None, !.select = None, !.deferred_read = None]

Ready(deadline) == [tag |-> "Ready", deadline |-> deadline]

\* config.keep_alive_timeout is None in every configuration of the model
ConfigOf(unsolicited, broadcast, retries) ==
    [confirm_timeout |-> ConfirmTimeout,
     select_timeout |-> SelectTimeout,
     unsolicited_retry_delay |-> RetryDelay,
     broadcast |-> broadcast,
     unsolicited |-> unsolicited,
     max_unsolicited_retries |-> retries,
     max_controls_per_request |-> None,
     restart_delay |-> Some(<<"Seconds", 2>>),
     write_absolute_time |-> "Ok",
     decode_level |-> "Nothing"]

AppInit ==
    [operate |-> 0, select |-> 0, transaction |-> 0, freeze_counter |-> 0,
     write_absolute_time |-> 0, clear_restart_iin |-> 0, cold_restart |-> 0,
     warm_restart |-> 0, get_processing_delay_ms |-> 0]

\* locals of the confirm waits; idle is the deadline the idle loop sleeps to
NoWait(idle) ==
    [series |-> None, sol_deadline |-> 0, frame |-> None,
     uns_response |-> None, retry_count |-> None, uns_deadline |-> 0,
     is_null |-> FALSE, sent |-> 0, idle_deadline |-> idle]

ObsInit ==
    [rx |-> None, tx |-> None, calls |-> {}, first |-> None, lost |-> {},
     null_acked |-> FALSE, dup |-> FALSE, unsol |-> None, answered |-> FALSE,
     msg |-> None]

SessionNew(configs) ==
    /\ pc = "Idle"
    /\ ret = "CheckUnsolicited"
    /\ config \in configs
    /\ state = SessionStateNew
    /\ sol_tx_buffer = <<>>
    /\ unsol_tx_buffer = <<>>
    /\ database = DbInit
    /\ app = AppInit
    /\ reader = [pending |-> None, next_id |-> 1]
    /\ now = 0
    /\ wait = NoWait(None)
    /\ runs = 1
    /\ obs = ObsInit

InitWith(configs) ==
    /\ SessionNew(configs)
    /\ link = LinkNew(<<>>)
    /\ master = RestartTaskNew("ColdRestart")
    /\ octet_string = Octets(<<>>)

---------------------------------------------------------------------------
(* Observation of a step *)

Tx(chan, frame, why) == Some([chan |-> chan, frame |-> frame, why |-> why])

SolTx(frame, why) == IF IsSome(frame) THEN Tx("sol", Get(frame), why) ELSE None

Observe(tx, calls) ==
    [obs EXCEPT !.rx = None, !.tx = tx, !.calls = calls, !.dup = FALSE, !.msg = None]

\* the step handled fragment f
Rx(f, ob) == [ob EXCEPT !.rx = Some(f)]

Quiet == Observe(None, {})

EventsOf(frame) ==
    IF IsSome(frame)
    THEN { Get(frame).objects[i][2] :
             i \in { j \in 1..Len(Get(frame).objects) : Get(frame).objects[j][1] = "ev" } }
    ELSE {}

\* events freed by clear_written_events that the confirmed fragment did not carry
LostBy(db, frame) == EventsIn(db, "written") \ EventsOf(frame)

---------------------------------------------------------------------------
(* Fragments delivered by the transport reader *)

Request(function, seq, objects) ==
    [t |-> "Request", function |-> function, seq |-> seq, uns |-> FALSE,
     broadcast |-> None, objects |-> objects, err |-> "", id |-> 0]

Confirm(uns, seq) ==
    [Request("Confirm", seq, ObjectsOk(<<>>)) EXCEPT !.uns = uns]

Broadcast(mode, request) == [request EXCEPT !.broadcast = Some(mode)]

TransportError(err, seq) ==
    [Request("", seq, ObjectsOk(<<>>)) EXCEPT !.t = "Error", !.err = err]

LinkLayerMessage ==
    [Request("", 0, ObjectsOk(<<>>)) EXCEPT !.t = "LinkLayerMessage"]

\* reader.read() completes at once when a fragment was retained; otherwise it
\* delivers the next fragment, which gets the next frame id
Deliveries(F, n) ==
    IF IsSome(reader.pending) THEN {Get(reader.pending)}
    ELSE IF reader.next_id <= n
    THEN { [f EXCEPT !.id = reader.next_id] : f \in F }
    ELSE {}

\* the reader after pop_request() and the guard's drop
Popped ==
    [pending |-> None,
     next_id |-> IF IsSome(reader.pending) THEN reader.next_id ELSE reader.next_id + 1]

\* the reader after pop_request() and guard.retain()
Retained(f) ==
    [pending |-> Some(f),
     next_id |-> IF IsSome(reader.pending) THEN reader.next_id ELSE reader.next_id + 1]

---------------------------------------------------------------------------
(* Actions *)

\* app holds the callbacks made by the last step only
W == World(state, database, sol_tx_buffer, AppInit)

Commit(pcN, retN, w, ubuf, rd, wt, ob) ==
    /\ pc' = pcN
    /\ ret' = retN
    /\ state' = w.state
    /\ database' = w.database
    /\ sol_tx_buffer' = w.sol_tx_buffer
    /\ app' = w.app
    /\ unsol_tx_buffer' = ubuf
    /\ reader' = rd
    /\ wait' = wt
    /\ obs' = ob
    /\ UNCHANGED <<config, now, runs, link, master, octet_string>>

NewConfirmDeadline == now + config.confirm_timeout

NewUnsolicitedRetryDeadline == now + config.unsolicited_retry_delay

\* entering sol_confirm_wait for `series`, awaiting the confirm of `frame`
SolWait(series, frame) ==
    [NoWait(wait.idle_deadline) EXCEPT !.series = series,
                                       !.sol_deadline = NewConfirmDeadline,
                                       !.frame = frame]

DbCallsOfRequest(st, f) ==
    IF f.t = "Request" /\ Classify(st, f) \in {"NewRead", "RepeatRead"}
    THEN {"select", "write_response_headers"} ELSE {}

\* the first response to the last valid request, as sent
FirstAfterIdle(st, f, frame) ==
    IF Classify(st, f) \in {"MalformedRequest", "NewRead", "RepeatRead", "NewNonRead"}
    THEN frame ELSE obs.first

ObserveIdle(f, frame) ==
    [Observe(SolTx(frame, IF Classify(state, f) = "RepeatNonRead" THEN "repeat" ELSE "new"),
             DbCallsOfRequest(state, f))
     EXCEPT !.first = FirstAfterIdle(state, f, frame),
            !.dup = Classify(state, f) \in {"RepeatRead", "RepeatNonRead"}]

\* a Request arm that does not await the confirmation of the series it started
IdleRequestNoWait(f, rd, r) ==
    Commit("CheckUnsolicited", ret, r.w, unsol_tx_buffer, rd,
           IF IsSome(r.series) THEN SolWait(r.series, r.frame) ELSE wait,
           Rx(f, ObserveIdle(f, r.frame)))

\* the Request arm: the session enters sol_confirm_wait when a series started
IdleRequest(f, rd, r) ==
    IF IsSome(r.series)
    THEN Commit("SolConfirmWait", "CheckUnsolicited", r.w, unsol_tx_buffer, rd,
                SolWait(r.series, r.frame), Rx(f, ObserveIdle(f, r.frame)))
    ELSE Commit("CheckUnsolicited", ret, r.w, unsol_tx_buffer, rd, wait,
                Rx(f, ObserveIdle(f, r.frame)))

\* the Error arm
IdleError(f, rd, r) ==
    Commit("CheckUnsolicited", ret, r.w, unsol_tx_buffer, rd, wait,
           Rx(f, Observe(SolTx(r.frame, "error"), {})))

\* handle_non_read is about to run handle_operate on an OPERATE whose
\* response objects do not fit sol_tx_buffer: respond_with_status or
\* operate_with_response returns Err(WriteError) and unwrap() panics
OperatePanics(st, f) ==
    /\ f.t = "Request"
    /\ Classify(st, f) = "NewNonRead"
    /\ f.function = "Operate"
    /\ ControlsOk(f.objects.headers)
    /\ WriteFails(ControlTokens(ControlPoints(f.objects.headers)))

\* the session task ends by panic
Panic(f, rd) ==
    Commit("Panicked", ret, W, unsol_tx_buffer, rd, wait, Rx(f, Quiet))

IdleFragment(f, rd) ==
    CASE OperatePanics(state, f) -> Panic(f, rd)
      [] f.t = "Request" -> IdleRequest(f, rd, HandleRequestFromIdle(W, f))
      [] f.t = "Error" -> IdleError(f, rd, WriteErrorResponse(W, f))
      [] OTHER -> Commit("CheckUnsolicited", ret, W, unsol_tx_buffer, rd, wait, Rx(f, Quiet))

HandleOneRequestFromIdle ==
    /\ pc = "Idle"
    /\ IF ~IsSome(reader.pending)
       THEN Commit("CheckUnsolicited", ret, W, unsol_tx_buffer, reader, wait, Quiet)
       ELSE IdleFragment(Get(reader.pending), [reader EXCEPT !.pending = None])

---------------------------------------------------------------------------
(* Unsolicited responses *)

RepeatUnsolicited(buf, response) == Frame(buf, response)

WriteUnsolicited(st, db, buf, response) ==
    LET g == GetResponseIin(st, db)
        r == [response EXCEPT !.header.iin = @ \cup g.iin]
    IN [state |-> g.state, response |-> r, frame |-> RepeatUnsolicited(buf, r)]

UnsolicitedHeader(seq) ==
    ResponseHeaderNew(ControlFieldUnsolicitedResponse(seq), "UnsolicitedResponse", {})

\* a series whose NULL response gets the configured retries
RetryCounterForAll(is_null) == config.max_unsolicited_retries

\* RetryCounter::new for a series
RetryCounterFor(is_null) ==
    IF is_null THEN Some(0) ELSE config.max_unsolicited_retries

\* a counter that never runs out
DecrementUnbounded(retries) == <<TRUE, retries>>

\* RetryCounter::decrement: <<may retry, counter afterwards>>
Decrement(retries) ==
    IF ~IsSome(retries) THEN <<TRUE, retries>>
    ELSE IF Get(retries) = 0 THEN <<FALSE, retries>>
    ELSE <<TRUE, Some(Get(retries) - 1)>>

\* perform_unsolicited_response_series up to its first await of a confirm
StartUnsolicitedSeries(st, db, ubuf, response, is_null, calls) ==
    LET s == WriteUnsolicited(st, db, ubuf, response)
    IN Commit("UnsolConfirmWait", ret,
              World([s.state EXCEPT !.unsolicited_seq = SeqNext(@)], db,
                    sol_tx_buffer, AppInit),
              ubuf, reader,
              [NoWait(None) EXCEPT !.uns_response = Some(s.response),
                                   !.retry_count = RetryCounterFor(is_null),
                                   !.uns_deadline = NewConfirmDeadline,
                                   !.is_null = is_null,
                                   !.sent = 1],
              [Observe(Tx("unsol", s.frame, "new"), calls)
               EXCEPT !.unsol = Some(s.frame), !.answered = FALSE])

\* check_unsolicited returning `deadline` without a series
SkipUnsolicited(db, ubuf, deadline, calls) ==
    Commit("DeferredRead", ret, World(state, db, sol_tx_buffer, AppInit), ubuf, reader,
           NoWait(deadline), Observe(None, calls))

\* a check that ignores the retry deadline
MayStartUnsolicitedAlways == TRUE

MayStartUnsolicited ==
    ~(IsSome(state.unsolicited.deadline) /\ now < Get(state.unsolicited.deadline))

CheckUnsolicited ==
    /\ pc = "CheckUnsolicited"
    /\ IF ~config.unsolicited
       THEN SkipUnsolicited(database, unsol_tx_buffer, None, {})
       ELSE IF state.unsolicited.tag = "NullRequired"
       THEN StartUnsolicitedSeries(state, database, unsol_tx_buffer,
                ResponseNew(UnsolicitedHeader(state.unsolicited_seq), 0), TRUE, {})
       ELSE IF ~MayStartUnsolicited
       THEN SkipUnsolicited(database, unsol_tx_buffer, state.unsolicited.deadline, {})
       ELSE IF state.enabled_unsolicited_classes = {}
       THEN SkipUnsolicited(database, unsol_tx_buffer, None, {})
       ELSE LET u == DbWriteUnsolicited(database, state.enabled_unsolicited_classes)
                ubuf == Overwrite(unsol_tx_buffer, u.tokens)
            IN IF u.count = 0
               THEN SkipUnsolicited(u.db, ubuf, None, {"write_unsolicited"})
               ELSE StartUnsolicitedSeries(state, u.db, ubuf,
                        ResponseNew(UnsolicitedHeader(state.unsolicited_seq), Len(u.tokens)),
                        FALSE, {"write_unsolicited"})

\* the arms of check_unsolicited after the series returned `result`
UnsolicitedDone(w, result) ==
    IF wait.is_null
    THEN IF result = "Confirmed"
         THEN [w |-> [w EXCEPT !.state.unsolicited = Ready(None)],
               deadline |-> None, calls |-> {}]
         ELSE [w |-> [w EXCEPT !.state.unsolicited.tag = "NullRequired"],
               deadline |-> Some(now), calls |-> {}]
    ELSE IF result = "Confirmed"
         THEN [w |-> [w EXCEPT !.state.unsolicited = Ready(None),
                               !.database = DbClearWrittenEvents(@)],
               deadline |-> None, calls |-> {"clear_written_events"}]
         ELSE [w |-> [w EXCEPT !.state.unsolicited = Ready(Some(NewUnsolicitedRetryDeadline))],
               deadline |-> Some(NewUnsolicitedRetryDeadline), calls |-> {}]

UnsolicitedFrame == Some(Frame(unsol_tx_buffer, Get(wait.uns_response)))

\* leaving perform_unsolicited_response_series with `result`
FinishUnsolicited(w, rd, result, rx, tx, first) ==
    LET d == UnsolicitedDone(w, result)
    IN Commit("DeferredRead", ret, d.w, unsol_tx_buffer, rd, NoWait(d.deadline),
              [Observe(tx, d.calls) EXCEPT
                 !.rx = rx,
                 !.lost = IF "clear_written_events" \in d.calls
                          THEN @ \cup LostBy(w.database, UnsolicitedFrame) ELSE @,
                 !.null_acked = @ \/ (wait.is_null /\ result = "Confirmed"),
                 !.first = first, !.unsol = None, !.answered = FALSE])

\* a confirm timeout that retries although a READ was deferred
UnsolTimeoutRetries ==
    /\ pc = "UnsolConfirmWait"
    /\ now >= wait.uns_deadline
    /\ LET d == Decrement(wait.retry_count)
       IN IF ~d[1]
          THEN FinishUnsolicited(W, reader, "Timeout", None, None, obs.first)
          ELSE Commit(pc, ret, W, unsol_tx_buffer, reader,
                      [wait EXCEPT !.retry_count = d[2],
                                   !.uns_deadline = NewConfirmDeadline,
                                   !.sent = @ + 1],
                      Observe(Tx("unsol", RepeatUnsolicited(unsol_tx_buffer,
                                            Get(wait.uns_response)), "retry"), {}))

\* a confirm timeout whose retry goes through write_unsolicited again
UnsolTimeoutRewrites ==
    /\ pc = "UnsolConfirmWait"
    /\ now >= wait.uns_deadline
    /\ LET d == Decrement(wait.retry_count)
           retry == d[1] /\ ~IsSome(state.deferred_read)
           s == WriteUnsolicited(state, database, unsol_tx_buffer,
                    ResponseNew(UnsolicitedHeader(Get(wait.uns_response).header.control.seq),
                                Get(wait.uns_response).size))
       IN IF ~retry
          THEN FinishUnsolicited(W, reader, "Timeout", None, None, obs.first)
          ELSE Commit(pc, ret, [W EXCEPT !.state = s.state], unsol_tx_buffer, reader,
                      [wait EXCEPT !.retry_count = d[2],
                                   !.uns_deadline = NewConfirmDeadline,
                                   !.sent = @ + 1],
                      Observe(Tx("unsol", s.frame, "retry"), {}))

UnsolTimeout ==
    /\ pc = "UnsolConfirmWait"
    /\ now >= wait.uns_deadline
    /\ LET d == Decrement(wait.retry_count)
           retry == d[1] /\ ~IsSome(state.deferred_read)
       IN IF ~retry
          THEN FinishUnsolicited(W, reader, "Timeout", None, None, obs.first)
          ELSE Commit(pc, ret, W, unsol_tx_buffer, reader,
                      [wait EXCEPT !.retry_count = d[2],
                                   !.uns_deadline = NewConfirmDeadline,
                                   !.sent = @ + 1],
                      Observe(Tx("unsol", RepeatUnsolicited(unsol_tx_buffer,
                                            Get(wait.uns_response)), "retry"), {}))

\* a slot that is never emptied
ClearDeferredKept(w) == w

ClearDeferred(w) == [w EXCEPT !.state.deferred_read = None]

DeferredReadSet(w, request) ==
    [w EXCEPT !.state.deferred_read =
        Some([hash |-> Xxh64(request), seq |-> request.seq, id |-> request.id,
              headers |-> request.objects.headers])]

UnsolNext(w, frame, why) ==
    [w |-> w, frame |-> frame, why |-> why, result |-> "ReadNext", first |-> obs.first]

\* the MalformedRequest arm after write_solicited returned s
UnsolMalformed(s) == UnsolNext(s.w, Some(s.frame), "new")

\* a NewNonRead arm that never cancels the series
UnsolNonReadContinues(f, s) ==
    [w |-> [s.w EXCEPT !.state.last_valid_request =
                Some(LastValidRequestNew(f.seq, Xxh64(f), s.response, None))],
     frame |-> s.frame, why |-> "new", result |-> "ReadNext", first |-> s.frame]

\* the NewNonRead arm after the optional write_solicited
UnsolNonRead(f, s) ==
    [w |-> [s.w EXCEPT !.state.last_valid_request =
                Some(LastValidRequestNew(f.seq, Xxh64(f), s.response, None))],
     frame |-> s.frame, why |-> "new",
     result |-> IF f.function = "DisableUnsolicited" THEN "ReturnToIdle" ELSE "ReadNext",
     first |-> s.frame]

\* the Error arm after write_error_response
UnsolError(r) == UnsolNext(r.w, r.frame, "error")

\* wait_for_unsolicited_confirm after read_until returned Timeout::No
WaitForUnsolicitedConfirm(w, f, uns_ecsn) ==
    IF f.t \in {"None", "LinkLayerMessage"} THEN UnsolNext(w, None, "")
    ELSE IF f.t = "Error"
    THEN UnsolError(WriteErrorResponse(ClearDeferred(w), f))
    ELSE LET type == Classify(w.state, f)
         IN CASE type = "UnsolicitedConfirm" ->
                   IF f.seq = uns_ecsn
                   THEN [UnsolNext([w EXCEPT !.state.last_broadcast_type = None], None, "")
                         EXCEPT !.result = "Confirmed"]
                   ELSE UnsolNext(w, None, "")
              [] type = "SolicitedConfirm" ->
                   IF w.state.last_broadcast_type = Some("Mandatory")
                   THEN UnsolNext([w EXCEPT !.state.last_broadcast_type = None], None, "")
                   ELSE UnsolNext(w, None, "")
              [] type = "Broadcast" ->
                   UnsolNext(ProcessBroadcast(ClearDeferred(w), Get(f.broadcast), f), None, "")
              [] type = "MalformedRequest" ->
                   UnsolMalformed(WriteSolicited(ClearDeferred(w),
                                     EmptySolicited(f.seq, Iin2From(f.objects.err))))
              [] type = "NewNonRead" ->
                   UnsolNonRead(f, MaybeWriteSolicited(
                                     HandleNonRead(ClearDeferred(w), f.function, f.seq, f.id,
                                                   f.objects.headers)))
              [] type \in {"NewRead", "RepeatRead"} ->
                   UnsolNext(DeferredReadSet(w, f), None, "")
              [] OTHER ->
                   LET last == Get(w.state.last_valid_request).response
                   IN UnsolNext(ClearDeferred(w),
                                IF IsSome(last)
                                THEN Some(RepeatSolicited(w.sol_tx_buffer, Get(last)))
                                ELSE None,
                                "repeat")

\* a loop that restarts the confirm timer after every fragment
UnsolStepRestarts(f, r) ==
    IF r.result = "ReadNext"
    THEN Commit(pc, ret, r.w, unsol_tx_buffer, Popped,
                [wait EXCEPT !.uns_deadline = NewConfirmDeadline],
                [Observe(SolTx(r.frame, r.why), {})
                 EXCEPT !.rx = Some(f), !.first = r.first,
                        !.answered = @ \/ (IsSome(r.frame) /\ r.why = "new")])
    ELSE FinishUnsolicited(r.w, Popped, r.result, Some(f), SolTx(r.frame, r.why), r.first)

\* the loop of perform_unsolicited_response_series after a fragment
UnsolStep(f, r) ==
    IF r.result = "ReadNext"
    THEN Commit(pc, ret, r.w, unsol_tx_buffer, Popped, wait,
                [Observe(SolTx(r.frame, r.why), {})
                 EXCEPT !.rx = Some(f), !.first = r.first,
                        !.answered = @ \/ (IsSome(r.frame) /\ r.why = "new")])
    ELSE FinishUnsolicited(r.w, Popped, r.result, Some(f), SolTx(r.frame, r.why), r.first)

UnsolRead(F, n) ==
    /\ pc = "UnsolConfirmWait"
    /\ \E f \in Deliveries(F, n) :
         IF OperatePanics(state, f) THEN Panic(f, Popped)
         ELSE UnsolStep(f, WaitForUnsolicitedConfirm(W, f,
                                                     Get(wait.uns_response).header.control.seq))

---------------------------------------------------------------------------
(* Deferred read *)

\* DeferredRead::select
DeferredSelect(w) ==
    LET x == Get(w.state.deferred_read)
    IN [w |-> [w EXCEPT !.database = DbSelect(@, x.headers)],
        seq |-> x.seq, hash |-> x.hash, iin2 |-> DbSelectIin2(x.headers)]

HandleDeferredRead ==
    /\ pc = "DeferredRead"
    /\ IF ~IsSome(state.deferred_read)
       THEN Commit("Select", ret, W, unsol_tx_buffer, reader, wait, Quiet)
       ELSE LET x == DeferredSelect(W)
                r == WriteReadResponse(x.w, TRUE, x.seq, x.iin2)
                s == WriteSolicited(r.w, r.response)
                w1 == [s.w EXCEPT !.state.last_valid_request =
                         Some(LastValidRequestNew(x.seq, x.hash, Some(s.response), r.series))]
                series == SeriesFor(s.response, r.series)
                ob == [Observe(Tx("sol", s.frame, "new"), {"select", "write_response_headers"})
                       EXCEPT !.first = Some(s.frame)]
            IN IF IsSome(series)
               THEN Commit("SolConfirmWait", "DeferredRead", w1, unsol_tx_buffer, reader,
                           SolWait(series, Some(s.frame)), ob)
               ELSE Commit("Select", ret, ClearDeferred(w1), unsol_tx_buffer, reader, wait, ob)

---------------------------------------------------------------------------
(* Solicited confirm wait *)

\* a confirm wait that takes any solicited CONFIRM for the awaited one
ExpectAnySolConfirm(st, f, ecsn) ==
    IF f.t \in {"None", "LinkLayerMessage"} THEN "ContinueWait"
    ELSE IF f.t = "Error" THEN "NewRequest"
    ELSE CASE Classify(st, f) = "RepeatRead" -> "EchoLastResponse"
           [] Classify(st, f) = "SolicitedConfirm" -> "Confirmed"
           [] Classify(st, f) = "UnsolicitedConfirm" -> "ContinueWait"
           [] OTHER -> "NewRequest"

\* expect_sol_confirm
ExpectSolConfirm(st, f, ecsn) ==
    IF f.t \in {"None", "LinkLayerMessage"} THEN "ContinueWait"
    ELSE IF f.t = "Error" THEN "NewRequest"
    ELSE LET type == Classify(st, f)
         IN CASE type = "RepeatRead" -> "EchoLastResponse"
              [] type = "SolicitedConfirm" ->
                   IF f.seq = ecsn THEN "Confirmed" ELSE "ContinueWait"
              [] type = "UnsolicitedConfirm" -> "ContinueWait"
              [] OTHER -> "NewRequest"

\* sol_confirm_wait returns to its caller
LeaveSolWait(w, rd, ob) ==
    IF ret = "DeferredRead"
    THEN Commit("Select", "CheckUnsolicited", ClearDeferred(w), unsol_tx_buffer, rd,
                NoWait(wait.idle_deadline), ob)
    ELSE Commit("CheckUnsolicited", "CheckUnsolicited", w, unsol_tx_buffer, rd,
                NoWait(wait.idle_deadline), ob)

\* a confirm timeout that returns to idle without reverting the database
SolTimeoutNoReset ==
    /\ pc = "SolConfirmWait"
    /\ now >= wait.sol_deadline
    /\ LeaveSolWait(W, reader, Observe(None, {}))

SolTimeout ==
    /\ pc = "SolConfirmWait"
    /\ now >= wait.sol_deadline
    /\ LeaveSolWait([W EXCEPT !.database = DbReset(@)], reader, Observe(None, {"reset"}))

\* the Confirm::Yes arm of sol_confirm_wait
SolConfirmed(f, w, rd) ==
    LET series == Get(wait.series)
        w1 == [w EXCEPT !.state.last_broadcast_type = None,
                        !.database = DbClearWrittenEvents(@)]
        lost == obs.lost \cup LostBy(w.database, wait.frame)
    IN IF series.fin
       THEN LeaveSolWait(w1, rd, [Observe(None, {"clear_written_events"})
                                  EXCEPT !.rx = Some(f), !.lost = lost])
       ELSE LET r == WriteReadResponse(w1, FALSE, SeqNext(series.ecsn), {})
                s == WriteSolicited(r.w, r.response)
                ob == [Observe(Tx("sol", s.frame, "series"),
                               {"clear_written_events", "write_response_headers"})
                       EXCEPT !.rx = Some(f), !.lost = lost]
            IN IF IsSome(r.series)
               THEN Commit(pc, ret, s.w, unsol_tx_buffer, rd,
                           SolWait(r.series, Some(s.frame)), ob)
               ELSE LeaveSolWait(s.w, rd, ob)

SolRead(F, n) ==
    /\ pc = "SolConfirmWait"
    /\ \E f \in Deliveries(F, n) :
         LET action == ExpectSolConfirm(state, f, Get(wait.series).ecsn)
         IN CASE action = "ContinueWait" ->
                   Commit(pc, ret, W, unsol_tx_buffer, Popped, wait, Rx(f, Quiet))
              [] action = "Confirmed" -> SolConfirmed(f, W, Popped)
              [] action = "NewRequest" ->
                   LeaveSolWait([W EXCEPT !.database = DbReset(@)], Retained(f),
                                Rx(f, Observe(None, {"reset"})))
              [] OTHER ->
                   LET last == Get(state.last_valid_request).response
                   IN Commit(pc, ret, W, unsol_tx_buffer, Popped,
                             [wait EXCEPT !.sol_deadline = NewConfirmDeadline],
                             Rx(f, Observe(IF IsSome(last)
                                           THEN Tx("sol", RepeatSolicited(sol_tx_buffer,
                                                                          Get(last)),
                                                   "repeat")
                                           ELSE None, {})))

---------------------------------------------------------------------------
(* The select! at the end of run_idle_state, and the environment *)

IdleRead(F, n) ==
    /\ pc = "Select"
    /\ \E f \in Deliveries(F, n) :
         Commit("Idle", ret, W, unsol_tx_buffer,
                IF f.t = "None" THEN Popped ELSE Retained(f), wait, Quiet)

IdleDatabaseChange ==
    /\ pc = "Select"
    /\ database.notified
    /\ Commit("Idle", ret, [W EXCEPT !.database.notified = FALSE], unsol_tx_buffer,
              reader, wait, Quiet)

IdleSleepElapsed ==
    /\ pc = "Select"
    /\ IsSome(wait.idle_deadline)
    /\ now >= Get(wait.idle_deadline)
    /\ Commit("Idle", ret, W, unsol_tx_buffer, reader, NoWait(None), Quiet)

\* the task is suspended at an await
Suspended == pc \in {"Select", "SolConfirmWait", "UnsolConfirmWait"}

Tick ==
    /\ Suspended
    /\ now < MaxTime
    /\ now' = now + 1
    /\ obs' = Quiet
    /\ app' = AppInit
    /\ UNCHANGED <<pc, ret, config, state, sol_tx_buffer, unsol_tx_buffer, database,
                   reader, wait, runs, link, master, octet_string>>

\* the application adds the next event to the database
AddEvent ==
    /\ \E e \in Events :
         /\ database.ev[e] = "absent"
         /\ \A d \in 1..(e - 1) : database.ev[d] # "absent"
         /\ database' = [database EXCEPT !.ev[e] = "unwritten", !.notified = TRUE]
    /\ obs' = Quiet
    /\ app' = AppInit
    /\ UNCHANGED <<pc, ret, config, state, sol_tx_buffer, unsol_tx_buffer,
                   reader, now, wait, runs, link, master, octet_string>>

\* run() ended with a link error while the task was suspended on the
\* physical layer; the owner of the session calls reset() and enters run()
\* again with the next connection
Reset ==
    /\ Suspended
    /\ runs < MaxRuns
    /\ runs' = runs + 1
    /\ state' = SessionStateReset(state)
    /\ pc' = "Idle"
    /\ ret' = "CheckUnsolicited"
    /\ wait' = NoWait(None)
    /\ reader' = [reader EXCEPT !.pending = None]
    /\ obs' = [Quiet EXCEPT !.first = None, !.unsol = None, !.answered = FALSE]
    /\ app' = AppInit
    /\ UNCHANGED <<config, sol_tx_buffer, unsol_tx_buffer, database, now, link, master,
                   octet_string>>

\* the steps of a run in which the master sends at most n fragments out of F
NextOver(F, n) ==
    \/ HandleOneRequestFromIdle
    \/ CheckUnsolicited
    \/ UnsolTimeout
    \/ UnsolRead(F, n)
    \/ HandleDeferredRead
    \/ SolTimeout
    \/ SolRead(F, n)
    \/ IdleRead(F, n)
    \/ IdleDatabaseChange
    \/ IdleSleepElapsed
    \/ Tick
    \/ AddEvent

---------------------------------------------------------------------------
(* Specifications *)

ReadClass0(seq) == Request("Read", seq, ObjectsOk(<<Hdr("Group60Var1", <<>>)>>))
ReadEvents(seq) ==
    Request("Read", seq, ObjectsOk(<<Hdr("Group60Var2", <<>>), Hdr("Group60Var3", <<>>)>>))
WriteIin(seq, index, value) ==
    Request("Write", seq, ObjectsOk(<<Hdr("Group80Var1", << <<value, index>> >>)>>))
EnableUnsolicited(seq) ==
    Request("EnableUnsolicited", seq,
            ObjectsOk(<<Hdr("Group60Var2", <<>>), Hdr("Group60Var3", <<>>)>>))
DisableUnsolicited(seq) ==
    Request("DisableUnsolicited", seq, ObjectsOk(<<Hdr("Group60Var2", <<>>)>>))

Frags ==
    {ReadClass0(15), ReadEvents(15), WriteIin(0, 7, 0), EnableUnsolicited(1),
     Confirm(FALSE, 15), Confirm(FALSE, 0), Confirm(TRUE, 0), Confirm(TRUE, 1),
     Broadcast("Mandatory", WriteIin(0, 7, 0))}

Configs == { ConfigOf(TRUE, TRUE, Some(1)) }

Init == InitWith(Configs)

Next == NextOver(Frags, MaxFrames)

Spec == Init /\ [][Next]_vars

\* a master that enables unsolicited reporting by broadcast and confirms
\* only the NULL unsolicited response and its own requests
FragsLoss ==
    {Confirm(TRUE, 0), Broadcast("Mandatory", EnableUnsolicited(15)),
     WriteIin(0, 7, 0), Confirm(FALSE, 0)}

InitLoss == InitWith({ ConfigOf(TRUE, TRUE, Some(0)) })

NextLoss == NextOver(FragsLoss, MaxFramesLoss)

SpecLoss == InitLoss /\ [][NextLoss]_vars

\* a master that writes the internal indications, over connections that fail
FragsReset ==
    {WriteIin(0, 7, 0), WriteIin(0, 7, 1), WriteIin(0, 4, 0),
     Broadcast("Optional", WriteIin(0, 7, 0)),
     ReadClass0(15), Confirm(FALSE, 15), Confirm(TRUE, 0)}

NextReset == NextOver(FragsReset, MaxFrames) \/ Reset

SpecReset == Init /\ [][NextReset]_vars

\* a master that selects and operates binary output commands on an
\* outstation configured without unsolicited responses

Select(seq, index) ==
    Request("Select", seq, ObjectsOk(<<Hdr("Group12Var1", << <<"LatchOn", index>> >>)>>))
Operate(seq, index) ==
    Request("Operate", seq, ObjectsOk(<<Hdr("Group12Var1", << <<"LatchOn", index>> >>)>>))

FragsControl ==
    {Select(0, 1), Operate(1, 1), Operate(1, 2), Operate(2, 1), WriteIin(2, 7, 0)}

InitControl == InitWith({ ConfigOf(FALSE, TRUE, Some(1)) })

NextControl ==
    \/ HandleOneRequestFromIdle
    \/ CheckUnsolicited
    \/ HandleDeferredRead
    \/ IdleRead(FragsControl, MaxFramesControl)
    \/ Tick

SpecControl == InitControl /\ [][NextControl]_vars

---------------------------------------------------------------------------
(* Properties *)

\* the last step answered a duplicate of the last valid request
Echoed == IsSome(obs.tx) /\ Get(obs.tx).why = "repeat"

\* C1: whenever the session answers a duplicate of the last valid request (a
\* repeated non-READ in Idle or in UnsolConfirmWait, a repeated READ in
\* SolConfirmWait), the fragment it transmits is identical to the first
\* response to that request, header and objects.
C1_DuplicateGetsFirstResponse ==
    Echoed => obs.first = Some(Get(obs.tx).frame)

\* C2: anti-loss: clear_written_events never frees an event unless the
\* fragment whose confirmation triggered it carried that event; in particular
\* it is never invoked while events written by a response that timed out
\* without confirmation are still marked as written.
C2_NoEventFreedUnacknowledged == obs.lost = {}

\* the last step wrote a solicited response that asks for a confirmation
SentWithCon ==
    /\ IsSome(obs.tx)
    /\ Get(obs.tx).chan = "sol"
    /\ Get(obs.tx).why # "repeat"
    /\ Get(obs.tx).frame.header.control.con

\* C3: every solicited response transmitted with con=true (also when CON was
\* forced by a pending mandatory-confirm broadcast, when it was written in
\* UnsolConfirmWait, and for an error response) is followed by a
\* SolConfirmWait for its sequence number, so that no two such fragments are
\* outstanding at once.
C3_ConfirmRequestedIsAwaited ==
    SentWithCon =>
        /\ pc = "SolConfirmWait"
        /\ IsSome(wait.series)
        /\ Get(wait.series).ecsn = Get(obs.tx).frame.header.control.seq

\* the last step transmitted an unsolicited fragment
UnsolSent == IsSome(obs.tx) /\ Get(obs.tx).chan = "unsol"

IsConfirm(f, uns) == f.t = "Request" /\ f.function = "Confirm" /\ f.uns = uns

\* the step acknowledged the NULL unsolicited response: an unsolicited
\* CONFIRM with the sequence number of the NULL response being awaited
NullAcknowledged ==
    /\ pc = "UnsolConfirmWait" /\ wait.is_null
    /\ IsSome(obs'.rx) /\ IsConfirm(Get(obs'.rx), TRUE)
    /\ Get(obs'.rx).seq = Get(wait.uns_response).header.control.seq

NullFirst ==
    /\ (state.unsolicited.tag = "Ready") <=> obs.null_acked
    /\ (UnsolSent /\ Get(obs.tx).frame.objects # <<>>) => obs.null_acked

\* C4: the session starts in NullRequired, leaves it only when an unsolicited
\* CONFIRM with the sequence number of the awaited NULL response arrives,
\* never returns to it, and every unsolicited fragment sent before that
\* carries no objects.
C4_NullUnsolicitedFirst ==
    /\ NullFirst
    /\ [][NullFirst' /\ (obs'.null_acked => (obs.null_acked \/ NullAcknowledged))]_vars

\* an event-bearing unsolicited response was transmitted
C4_EventUnsolicitedSent == UnsolSent /\ Get(obs.tx).frame.objects # <<>>

\* a solicited response series is outstanding
InSolicitedSeries == pc = "SolConfirmWait" \/ IsSome(wait.series)

\* C5: from entering SolConfirmWait until leaving it no step transmits an
\* unsolicited fragment.
C5_NoUnsolicitedInSolicitedSeries ==
    [][(InSolicitedSeries \/ InSolicitedSeries') => ~UnsolSent']_vars

\* the session awaits a solicited confirm while an unsolicited response is due
C5_UnsolicitedDueInSolConfirmWait ==
    /\ pc = "SolConfirmWait"
    /\ state.unsolicited.tag = "Ready"
    /\ MayStartUnsolicited
    /\ \E e \in Events :
         /\ database.ev[e] = "unwritten"
         /\ EventClass(e) \in state.enabled_unsolicited_classes

\* C6: with max_unsolicited_retries = Some(N) a non-NULL unsolicited series
\* has transmitted its fragment at most N+1 times.
C6_AtMostNPlusOneTransmissions ==
    (pc = "UnsolConfirmWait" /\ ~wait.is_null /\ IsSome(config.max_unsolicited_retries))
        => wait.sent <= Get(config.max_unsolicited_retries) + 1

\* a non-NULL series has used all its retries and its confirm timer expired
C6_RetriesExhausted ==
    /\ pc = "UnsolConfirmWait" /\ ~wait.is_null
    /\ IsSome(config.max_unsolicited_retries)
    /\ Get(config.max_unsolicited_retries) > 0
    /\ wait.sent = Get(config.max_unsolicited_retries) + 1
    /\ now >= wait.uns_deadline

\* the step handled a CONFIRM whose sequence number is not the awaited one
MismatchedConfirm ==
    /\ IsSome(obs'.rx)
    /\ \/ /\ pc = "SolConfirmWait"
          /\ IsConfirm(Get(obs'.rx), FALSE)
          /\ Get(obs'.rx).seq # Get(wait.series).ecsn
       \/ /\ pc = "UnsolConfirmWait"
          /\ IsConfirm(Get(obs'.rx), TRUE)
          /\ Get(obs'.rx).seq # Get(wait.uns_response).header.control.seq

\* C7: a CONFIRM with a mismatched sequence number leaves the wait state, the
\* awaited sequence number, the retry counter and the confirm deadline
\* unchanged, calls neither clear_written_events nor reset, and transmits
\* nothing.
C7_MismatchedConfirmIgnored ==
    [][MismatchedConfirm =>
         /\ pc' = pc /\ ret' = ret /\ wait' = wait
         /\ state' = state /\ database' = database
         /\ obs'.tx = None /\ obs'.calls = {}]_vars

\* a solicited CONFIRM with the wrong sequence number was handled in
\* SolConfirmWait
C7_MismatchedSolicitedConfirmSeen ==
    /\ pc = "SolConfirmWait"
    /\ IsSome(obs.rx) /\ IsConfirm(Get(obs.rx), FALSE)
    /\ Get(obs.rx).seq # Get(wait.series).ecsn
    /\ obs.tx = None

\* the last step handled an OPERATE and ran the operate phase of the handler
Operated ==
    /\ IsSome(obs.rx)
    /\ Get(obs.rx).function = "Operate"
    /\ app.operate > 0

\* C8: once an OPERATE that matches the SELECT was executed, the SelectState
\* is no longer present in the session state.
C8_SelectStateConsumed == Operated => ~IsSome(state.select)

\* the step handles fragment f as a new OPERATE with well-formed controls
OperateHandled(f) ==
    /\ obs'.rx = Some(f)
    /\ pc \in {"Idle", "UnsolConfirmWait"}
    /\ f.function = "Operate"
    /\ Classify(state, f) = "NewNonRead"
    /\ ControlsOk(f.objects.headers)

\* s matches the OPERATE f on sequence number, frame id and object hash
\* within select_timeout
SelectMatches(s, f) ==
    /\ SeqNext(s.seq) = f.seq
    /\ s.frame_id + 1 = f.id
    /\ s.object_hash = ObjectHash(f.objects.headers)
    /\ now - s.time <= config.select_timeout

\* every control of the transmitted response carries a status out of S
StatusesIn(tx, S) ==
    /\ IsSome(tx)
    /\ Get(tx).frame.objects # <<>>
    /\ \A i \in 1..Len(Get(tx).frame.objects) :
         /\ Get(tx).frame.objects[i][1] = "ctl"
         /\ Get(tx).frame.objects[i][3] \in S

NoControlAction == app'.operate = 0 /\ app'.transaction = 0

\* C9: the operate phase runs only if a SelectState exists and matches the
\* OPERATE on sequence number, frame id and object hash within
\* select_timeout; with no SelectState every control is answered NoSelect,
\* with a failed match NoSelect or Timeout, and in both cases no control
\* action is performed and no transaction is opened.
C9_OperateRequiresMatchingSelect ==
    [][\A f \in FragsControl \cup { [g EXCEPT !.id = i] :
                                      g \in FragsControl, i \in 1..(MaxFramesControl + 1) } :
         OperateHandled(f) =>
            /\ ~NoControlAction =>
                  (IsSome(state.select) /\ SelectMatches(Get(state.select), f))
            /\ ~IsSome(state.select) =>
                  (NoControlAction /\ StatusesIn(obs'.tx, {"NoSelect"}))
            /\ (IsSome(state.select) /\ ~SelectMatches(Get(state.select), f)) =>
                  (NoControlAction /\ StatusesIn(obs'.tx, {"NoSelect", "Timeout"}))]_vars

\* an OPERATE that does not match the existing SelectState was answered
\* NoSelect
C9_MismatchAnswered ==
    /\ IsSome(obs.rx)
    /\ Get(obs.rx).function = "Operate"
    /\ IsSome(state.select)
    /\ StatusesIn(obs.tx, {"NoSelect"})
    /\ app.operate = 0

\* f is a WRITE of Group80Var1 that writes false to index 7
WritesRestartFalse(f) ==
    /\ f.t = "Request"
    /\ f.function = "Write"
    /\ f.objects.ok
    /\ Len(f.objects.headers) = 1
    /\ f.objects.headers[1].kind = "Group80Var1"
    /\ \E i \in 1..Len(f.objects.headers[1].items) :
         f.objects.headers[1].items[i] = <<0, 7>>

\* C10: restart_iin_asserted is true at construction, is cleared only by a
\* step that handles a WRITE (solicited or broadcast) of Group80Var1 with
\* index 7 = false, and once cleared is never set again.
C10_RestartIinClearedOnlyByWrite ==
    /\ state.restart_iin_asserted
    /\ [][/\ (state.restart_iin_asserted /\ ~state'.restart_iin_asserted) =>
               (IsSome(obs'.rx) /\ WritesRestartFalse(Get(obs'.rx)))
          /\ ~state.restart_iin_asserted => ~state'.restart_iin_asserted]_vars

\* a WRITE of index 7 = false has just cleared the restart indication, in
\* the second run of the session
C10_RestartCleared ==
    /\ ~state.restart_iin_asserted
    /\ IsSome(obs.rx)
    /\ WritesRestartFalse(Get(obs.rx))
    /\ app.clear_restart_iin = 1
    /\ runs = 2

---------------------------------------------------------------------------
(* Broadcast fragments *)

Malformed(function, seq, err) == Request(function, seq, ObjectsErr(err))

\* a master that broadcasts supported, unsupported and malformed requests to
\* outstations with broadcast support enabled or disabled
FragsBroadcast ==
    {Broadcast("Optional", WriteIin(0, 7, 0)),
     Broadcast("Mandatory", EnableUnsolicited(1)),
     Broadcast("Optional", ReadClass0(2)),
     Broadcast("Mandatory", Request("ColdRestart", 3, ObjectsOk(<<>>))),
     Broadcast("Optional", Malformed("Write", 4, "UnknownGroupVariation")),
     ReadEvents(15), Confirm(FALSE, 15), Confirm(TRUE, 0)}

InitBroadcast ==
    InitWith({ ConfigOf(u, b, Some(1)) : u \in BOOLEAN, b \in BOOLEAN })

NextBroadcast == NextOver(FragsBroadcast, MaxFrames)

SpecBroadcast == InitBroadcast /\ [][NextBroadcast]_vars

\* the last step handled a fragment that classify calls Broadcast
BroadcastHandled ==
    /\ IsSome(obs.rx)
    /\ Get(obs.rx).t = "Request"
    /\ Classify(state, Get(obs.rx)) = "Broadcast"

\* C11: a step that handles a fragment classified as Broadcast writes no
\* solicited response fragment, whatever the function code, the broadcast
\* configuration and the state the fragment is handled in
C11_BroadcastNeverAnswered ==
    BroadcastHandled => ~(IsSome(obs.tx) /\ Get(obs.tx).chan = "sol")

\* a broadcast WRITE handled from Idle cleared the restart indication
C11_BroadcastMutatedState ==
    /\ BroadcastHandled
    /\ pc = "CheckUnsolicited"
    /\ app.clear_restart_iin = 1
    /\ ~state.restart_iin_asserted
    /\ obs.tx = None

\* the step wrote a solicited response to a request or to a transport error
AnsweredNext ==
    /\ IsSome(obs'.tx)
    /\ Get(obs'.tx).chan = "sol"
    /\ Get(obs'.tx).why \in {"new", "error"}

\* C12: while a broadcast with the mandatory-confirm indicator is pending,
\* the next solicited response the session writes (from Idle, as a deferred
\* READ, in UnsolConfirmWait, or for a transport error) has CON=true and the
\* session then is in SolConfirmWait for that response's sequence number.
C12_MandatoryBroadcastConfirmed ==
    [][(state.last_broadcast_type = Some("Mandatory") /\ AnsweredNext) =>
          /\ Get(obs'.tx).frame.header.control.con
          /\ pc' = "SolConfirmWait"
          /\ IsSome(wait'.series)
          /\ Get(wait'.series).ecsn = Get(obs'.tx).frame.header.control.seq]_vars

\* the step left SolConfirmWait without the awaited confirmation: by confirm
\* timeout, or aborted by a new request
SolWaitAbandoned ==
    /\ pc = "SolConfirmWait"
    /\ pc' # "SolConfirmWait"
    /\ ~(/\ IsSome(obs'.rx)
         /\ IsConfirm(Get(obs'.rx), FALSE)
         /\ Get(obs'.rx).seq = Get(wait.series).ecsn)

Reserved(db) == EventsIn(db, "selected") \cup EventsIn(db, "written")

\* C13: when a SolConfirmWait ends by confirm timeout or by abort on a new
\* request, the step calls database.reset and not clear_written_events,
\* builds no response and leaves the aborting fragment unprocessed; afterwards
\* no event is reserved, none was freed, and the events of the unconfirmed
\* fragment are unwritten again, so a later READ presents them.
C13_AbandonedSeriesResetsDatabase ==
    [][SolWaitAbandoned =>
          /\ obs'.calls = {"reset"}
          /\ obs'.tx = None
          /\ ClearDeferred(W').state = ClearDeferred(W).state
          /\ IsSome(obs'.rx) => reader'.pending = obs'.rx
          /\ Reserved(database') = {}
          /\ EventsIn(database', "cleared") = EventsIn(database, "cleared")
          /\ EventsOf(wait.frame) \subseteq EventsIn(database', "unwritten")]_vars

\* a READ response that carried events was abandoned and its events are
\* unwritten again
C13_UnconfirmedEventsRestored ==
    /\ "reset" \in obs.calls
    /\ EventsOf(obs.first) # {}
    /\ EventsOf(obs.first) \subseteq EventsIn(database, "unwritten")

---------------------------------------------------------------------------
(* Deferred READ *)

\* a master that reads while the outstation awaits the confirmation of an
\* unsolicited response, with bounded and with unbounded retries
FragsDeferred ==
    {Confirm(TRUE, 0), EnableUnsolicited(1), ReadClass0(15), ReadEvents(15),
     Confirm(FALSE, 15), WriteIin(0, 7, 0)}

InitDeferred == InitWith({ ConfigOf(TRUE, TRUE, r) : r \in {None, Some(1)} })

NextDeferred == NextOver(FragsDeferred, MaxFrames)

SpecDeferred == InitDeferred /\ [][NextDeferred]_vars

\* the confirm timer of the unsolicited series expired in this step
UnsolTimerExpired ==
    /\ pc = "UnsolConfirmWait"
    /\ ~IsSome(obs'.rx)
    /\ wait' # wait

\* the session task moved on from the deferred-read step of the idle pass
DeferredReadStep == pc = "DeferredRead" /\ pc' # pc

\* C14: when the confirm timer of an unsolicited series expires while a
\* deferred READ is set, the series is not retransmitted, whatever retries
\* remain, and returns Timeout; the deferred READ then is answered with a
\* solicited response by the next step of the session, which reads no
\* fragment and comes before any suspension.
C14_DeferredReadEndsUnsolicitedSeries ==
    [][/\ (UnsolTimerExpired /\ IsSome(state.deferred_read)) =>
            /\ obs'.tx = None
            /\ pc' = "DeferredRead"
            /\ "clear_written_events" \notin obs'.calls
            /\ state'.deferred_read = state.deferred_read
            /\ IF wait.is_null THEN state'.unsolicited.tag = "NullRequired"
               ELSE state'.unsolicited = Ready(Some(NewUnsolicitedRetryDeadline))
       /\ (pc = "DeferredRead" /\ ~DeferredReadStep) =>
            UNCHANGED <<state, reader, sol_tx_buffer, wait>>
       /\ (DeferredReadStep /\ IsSome(state.deferred_read)) =>
            /\ obs'.rx = None
            /\ reader' = reader
            /\ IsSome(obs'.tx)
            /\ Get(obs'.tx).chan = "sol"
            /\ Get(obs'.tx).frame.header.function = "Response"
            /\ Get(obs'.tx).frame.header.control.seq = Get(state.deferred_read).seq]_vars

\* with unbounded retries, a non-NULL series timed out because of a deferred
\* READ and the READ was answered
C14_DeferredReadAnswered ==
    /\ config.max_unsolicited_retries = None
    /\ state.unsolicited.tag = "Ready"
    /\ IsSome(state.unsolicited.deadline)
    /\ obs.rx = None
    /\ IsSome(obs.tx)
    /\ Get(obs.tx).chan = "sol"
    /\ Get(obs.tx).why = "new"

\* the oldest fragment the transport has not handed over yet
OldestUnhandled ==
    IF IsSome(reader.pending) THEN Get(reader.pending).id ELSE reader.next_id

\* the step handled a request (not a CONFIRM) that arrived after the READ
\* which is deferred and not yet answered
LaterRequestHandled ==
    /\ IsSome(state.deferred_read)
    /\ IsSome(obs'.rx)
    /\ Get(obs'.rx).function # "Confirm"
    /\ Get(obs'.rx).id > Get(state.deferred_read).id

\* C15: fragments are handled in arrival order, and no request that arrived
\* after a request R is handled or answered before the response to R was
\* written, also when R is a READ deferred during UnsolConfirmWait or a
\* fragment retained after aborting a SolConfirmWait.
C15_ArrivalOrder ==
    [][/\ IsSome(obs'.rx) => Get(obs'.rx).id = OldestUnhandled
       /\ ~LaterRequestHandled]_vars

---------------------------------------------------------------------------
(* Multi-fragment READ responses *)

Control(frame) == frame.header.control

\* the database has nothing left to write for the selection
DbComplete(db) == EventsIn(db, "selected") = {} /\ db.static = 0

\* the step sent the first fragment of the response to a READ it handled
FirstFragmentSent ==
    /\ IsSome(obs'.tx)
    /\ Get(obs'.tx).why = "new"
    /\ \/ pc = "DeferredRead"
       \/ IsSome(obs'.rx) /\ Get(obs'.rx).function = "Read"

ReadSeq == IF pc = "DeferredRead" THEN Get(state.deferred_read).seq ELSE Get(obs'.rx).seq

\* the step sent a further fragment of a response series
NextFragmentSent == IsSome(obs'.tx) /\ Get(obs'.tx).why = "series"

\* C16: the first fragment of a READ response has the request's sequence
\* number and FIR; a further fragment is sent only from SolConfirmWait, on a
\* CONFIRM whose sequence number is that of the previous fragment, which was
\* not final; it has the next sequence number modulo 16 and no FIR; FIN is
\* set exactly when the database has nothing left to write; and the series
\* goes on exactly while a confirmation is requested.
C16_ReadSeriesFragments ==
    [][/\ FirstFragmentSent =>
            /\ Control(Get(obs'.tx).frame).seq = ReadSeq
            /\ Control(Get(obs'.tx).frame).fir
            /\ Control(Get(obs'.tx).frame).fin = DbComplete(database')
       /\ NextFragmentSent =>
            /\ pc = "SolConfirmWait"
            /\ Control(Get(wait.frame)).seq = Get(wait.series).ecsn
            /\ ~Control(Get(wait.frame)).fin
            /\ IsSome(obs'.rx)
            /\ IsConfirm(Get(obs'.rx), FALSE)
            /\ Get(obs'.rx).seq = Control(Get(wait.frame)).seq
            /\ Control(Get(obs'.tx).frame).seq = (Control(Get(wait.frame)).seq + 1) % 16
            /\ ~Control(Get(obs'.tx).frame).fir
            /\ Control(Get(obs'.tx).frame).fin = DbComplete(database')
            /\ (pc' = "SolConfirmWait") = Control(Get(obs'.tx).frame).con]_vars

\* the second and final fragment of a series, with the sequence number
\* wrapped from 15 to 0
C16_FinalFragmentAfterWrap ==
    /\ IsSome(obs.tx)
    /\ Get(obs.tx).why = "series"
    /\ Control(Get(obs.tx).frame).seq = 0
    /\ Control(Get(obs.tx).frame).fin
    /\ ~Control(Get(obs.tx).frame).fir

---------------------------------------------------------------------------
(* Requests in error *)

OperateTwo(seq) ==
    Request("Operate", seq,
            ObjectsOk(<<Hdr("Group12Var1", << <<"LatchOn", 1>>, <<"LatchOn", 2>> >>)>>))

\* a master whose requests are malformed, unknown, unsupported by the
\* application, refused, or too large to answer, between event READs
FragsErrors ==
    {Malformed("Write", 0, "UnknownGroupVariation"),
     Malformed("Read", 1, "InvalidQualifierForVariation"),
     TransportError("UnknownFunction", 2),
     ReadEvents(15),
     Confirm(FALSE, 15),
     Request("ColdRestart", 4, ObjectsOk(<<>>)),
     Request("Write", 5, ObjectsOk(<<Hdr("Group12Var1", << <<"LatchOn", 1>> >>)>>)),
     Operate(6, 1),
     OperateTwo(7),
     Confirm(TRUE, 0)}

\* the application supports no restart
InitErrors ==
    InitWith({ [ConfigOf(u, TRUE, Some(1)) EXCEPT !.restart_delay = None] : u \in BOOLEAN })

NextErrors == NextOver(FragsErrors, MaxFrames)

SpecErrors == InitErrors /\ [][NextErrors]_vars

\* a request of FragsErrors that asks for something the outstation refuses
InError(f) ==
    \/ f.t = "Error" /\ f.err # "InsufficientBytes"
    \/ /\ f.t = "Request"
       /\ f.function # "Confirm"
       /\ ~IsSome(f.broadcast)

\* the last step handled such a request (and did not just retain it)
ErrorHandled == IsSome(obs.rx) /\ InError(Get(obs.rx)) /\ reader.pending # obs.rx

ErrorBits == {"NO_FUNC_CODE_SUPPORT", "OBJECT_UNKNOWN", "PARAMETER_ERROR"}

\* a normal response fragment that reports the error in IIN2 or in the
\* command status of its objects
ReportsError(frame) ==
    /\ frame.header.function = "Response"
    /\ \/ frame.header.iin \cap ErrorBits # {}
       \/ \E i \in 1..Len(frame.objects) :
             frame.objects[i][1] = "ctl" /\ frame.objects[i][3] # "Success"

\* C17: no request content ends the session task: it never panics, and each
\* request in error is answered by a normal response fragment that carries
\* the error as IIN bits or as command status.
C17_RequestContentNeverEndsSession ==
    /\ pc # "Panicked"
    /\ ErrorHandled =>
          /\ IsSome(obs.tx)
          /\ Get(obs.tx).chan = "sol"
          /\ ReportsError(Get(obs.tx).frame)


---------------------------------------------------------------------------
(* The link reader and the cancellation of read() *)

Session == <<pc, ret, config, state, sol_tx_buffer, unsol_tx_buffer, database,
             app, reader, now, wait, runs, obs>>

\* the caller polls a new read() future
ReaderRead ==
    /\ link.pc = "Returned"
    /\ link' = Polled(link, link.reader, link.pos)
    /\ UNCHANGED <<Session, master, octet_string>>

\* io.read completes with count bytes of the source; it completes with none
\* when the source is closed or the destination is empty
ReaderIo ==
    /\ link.pc = "Reading"
    /\ LET room == Min(MaxLinkFrameLength - link.reader.end,
                       Len(link.source) - link.pos)
       IN IF room = 0
          THEN link' = [link EXCEPT !.pc = "Returned",
                                    !.result = Some("UnexpectedEof")]
          ELSE \E count \in 1..room :
                 link' = Polled(link,
                                Filled(link.reader,
                                       SubSeq(link.source, link.pos + 1, link.pos + count)),
                                link.pos + count)
    /\ UNCHANGED <<Session, master, octet_string>>

MidFrame(r) == r.parser.state # "FindSync" \/ r.begin < r.end

\* the caller drops the future at the await (a select! took another branch)
ReaderDrop ==
    /\ link.pc = "Reading"
    /\ link' = [DropFuture(link) EXCEPT !.cut = @ \/ MidFrame(link.reader)]
    /\ UNCHANGED <<Session, master, octet_string>>

LinkFrame0 == <<"sync", "len0">>
LinkFrame2 == <<"sync", "len2", "a", "b">>
LinkItems == {LinkFrame0, LinkFrame2, <<"g">>}

RECURSIVE Concat(_)
Concat(items) == IF items = <<>> THEN <<>> ELSE Head(items) \o Concat(Tail(items))

\* every byte stream made of at most MaxLinkItems frames and stray bytes,
\* cut at any byte
Sources ==
    UNION { { SubSeq(Concat(items), 1, k) : k \in 0..Len(Concat(items)) } :
            items \in UNION { [1..n -> LinkItems] : n \in 0..MaxLinkItems } }

InitReader ==
    /\ SessionNew(Configs)
    /\ link \in { LinkNew(source) : source \in Sources }
    /\ master = RestartTaskNew("ColdRestart")
    /\ octet_string = Octets(<<>>)

NextReader == ReaderRead \/ ReaderIo \/ ReaderDrop

SpecReader == InitReader /\ [][NextReader]_vars

\* the frames of a byte stream parsed in one piece
RECURSIVE Decode(_)
Decode(bytes) ==
    IF Parse(ParserNew, bytes, 0).result = "Frame"
    THEN <<Get(Parse(ParserNew, bytes, 0).frame)>>
         \o Decode(SubSeq(bytes, Parse(ParserNew, bytes, 0).consumed + 1, Len(bytes)))
    ELSE <<>>

\* the state of a parser that was given a byte stream in one piece
RECURSIVE ParserAfter(_)
ParserAfter(bytes) ==
    IF Parse(ParserNew, bytes, 0).result = "Frame"
    THEN ParserAfter(SubSeq(bytes, Parse(ParserNew, bytes, 0).consumed + 1, Len(bytes)))
    ELSE Parse(ParserNew, bytes, 0).parser

\* C18: the read() future may be dropped at its await and read() called
\* again: whatever the cancellations, the frames returned so far are the
\* frames of the bytes consumed so far parsed in one piece, the parser is in
\* the state an uninterrupted parse of these bytes leaves it in, and the
\* bytes delivered and not yet consumed are the window [begin, end) of the
\* buffer, each exactly once.
C18_ReadSurvivesCancellation ==
    /\ link.frames = Decode(SubSeq(link.source, 1, link.consumed))
    /\ link.reader.parser = ParserAfter(SubSeq(link.source, 1, link.consumed))
    /\ Unparsed(link.reader) = SubSeq(link.source, link.consumed + 1, link.pos)

\* a frame with a body was returned by a read() called after a future was
\* dropped in the middle of a frame
C18_FrameAfterDroppedRead ==
    /\ link.cut
    /\ link.result = Some("Frame")
    /\ link.frames # <<>>
    /\ link.frames[Len(link.frames)] = <<"a", "b">>


---------------------------------------------------------------------------
(* Restart: the outstation's answer and the master's restart task *)

RestartTimes == {0, 1, 1500, 65535}

RestartDelays ==
    {None} \cup { Some(<<unit, n>>) : unit \in {"Seconds", "Milliseconds"},
                                      n \in RestartTimes }

\* RestartType::function
RestartFunction(restart_type) ==
    IF restart_type = "ColdRestart" THEN "ColdRestart" ELSE "WarmRestart"

\* the master sends the request of its task, reads events and confirms
FragsRestart ==
    {Request(RestartFunction(master.restart_type), 0, ObjectsOk(<<>>)),
     ReadEvents(15), Confirm(FALSE, 15), Confirm(TRUE, 0)}

IsRestart(f) == f.t = "Request" /\ f.function \in {"ColdRestart", "WarmRestart"}

\* the last step answered a restart request
RestartAnswered ==
    /\ IsSome(obs.rx) /\ IsRestart(Get(obs.rx))
    /\ IsSome(obs.tx) /\ Get(obs.tx).chan = "sol"

\* the master's task receives the answer to its request
MasterHandleReply ==
    /\ master.alive
    /\ RestartAnswered
    /\ Get(obs.rx).function = RestartFunction(master.restart_type)
    /\ master' = RestartTaskHandle(master, ToResponse(Get(obs.tx).frame))
    /\ UNCHANGED <<Session, link, octet_string>>

InitRestart ==
    /\ SessionNew({ [ConfigOf(TRUE, TRUE, Some(1)) EXCEPT !.restart_delay = d] :
                    d \in RestartDelays })
    /\ link = LinkNew(<<>>)
    /\ master \in { RestartTaskNew(t) : t \in {"ColdRestart", "WarmRestart"} }
    /\ octet_string = Octets(<<>>)

NextRestart == NextOver(FragsRestart, MaxFramesRestart) \/ MasterHandleReply

SpecRestart == InitRestart /\ [][NextRestart]_vars

DelayUnit == Get(config.restart_delay)[1]
DelayTime == Get(config.restart_delay)[2]

\* the objects of a frame: one count-of-one object of `variation` with `time`
CountOfOne(frame, variation, time) ==
    /\ Len(frame.objects) = 1
    /\ frame.objects[1][1] = variation
    /\ frame.objects[1][2] = time

\* C19: a restart request is answered, when the application gives no delay,
\* by an empty response with IIN2.NO_FUNC_CODE_SUPPORT and, when it gives
\* Seconds(n) (Milliseconds(n)), by a response with function Response and
\* one Group52Var1 (Group52Var2) object of quantity one with time n; the
\* master's restart task that handled this response has completed with
\* Ok(n seconds) (Ok(n milliseconds)).
C19_RestartRoundTrip ==
    /\ RestartAnswered =>
         /\ Get(obs.tx).frame.header.function = "Response"
         /\ IF ~IsSome(config.restart_delay)
            THEN /\ Get(obs.tx).frame.objects = <<>>
                 /\ "NO_FUNC_CODE_SUPPORT" \in Get(obs.tx).frame.header.iin
            ELSE CountOfOne(Get(obs.tx).frame,
                            IF DelayUnit = "Seconds" THEN "g52v1" ELSE "g52v2",
                            DelayTime)
    /\ ~master.alive /\ IsSome(config.restart_delay) =>
         /\ Len(master.promise) = 1
         /\ master.promise[1].ok
         /\ IF DelayUnit = "Seconds"
            THEN master.promise[1].value = [secs |-> DelayTime, nanos |-> 0]
            ELSE /\ master.promise[1].value.secs * 1000
                      + master.promise[1].value.nanos \div 1000000 = DelayTime
                 /\ master.promise[1].value.nanos % 1000000 = 0
                 /\ master.promise[1].value.nanos < 1000000000

\* the task of a warm restart completed with a delay of 1500 milliseconds,
\* that is 1 s and 500 000 000 ns
C19_DelayReported ==
    /\ ~master.alive
    /\ master.restart_type = "WarmRestart"
    /\ config.restart_delay = Some(<<"Milliseconds", 1500>>)
    /\ master.promise = <<Ok([secs |-> 1, nanos |-> 500000000])>>


---------------------------------------------------------------------------
(* The restart task over every shape of response *)

TimeValues == { [time |-> t] : t \in {0, 1500} }

ValueLists == UNION { [1..n -> TimeValues] : n \in 0..MaxValues }

ResponseHeaders ==
    { CountHeader(v, values) : v \in {"Group52Var1", "Group52Var2", "Group50Var1"},
                               values \in ValueLists }
    \cup { RangeHeader(v, <<[time |-> 1500]>>) : v \in {"Group52Var1", "Group1Var2"} }

Responses ==
    { [header |-> EmptySolicited(0, {}).header, objects |-> objects] :
      objects \in { ObjectsErr(e) : e \in {"UnknownGroupVariation", "InsufficientBytes"} }
                  \cup { ObjectsOk(hs) :
                         hs \in UNION { [1..n -> ResponseHeaders] : n \in 0..MaxHeaders } } }

\* the task handles a response
MasterHandle ==
    /\ master.alive
    /\ \E response \in Responses : master' = RestartTaskHandle(master, response)
    /\ UNCHANGED <<Session, link, octet_string>>

InitRestartTask ==
    /\ SessionNew(Configs)
    /\ link = LinkNew(<<>>)
    /\ master \in { RestartTaskNew(t) : t \in {"ColdRestart", "WarmRestart"} }
    /\ octet_string = Octets(<<>>)

NextRestartTask == MasterHandle

SpecRestartTask == InitRestartTask /\ [][NextRestartTask]_vars

\* exactly one count header of Group52Var1 or Group52Var2 with a single value
DelayHeaders(headers) ==
    /\ Len(headers) = 1
    /\ headers[1].details = "Count"
    /\ headers[1].variation \in {"Group52Var1", "Group52Var2"}
    /\ Len(headers[1].values) = 1

Millis(duration) == duration.secs * 1000 + duration.nanos \div 1000000

\* C20: a restart task that has not handled a response has not completed its
\* promise; one that has handled a response has completed it exactly once and
\* has returned no follow-up task.  The completion is
\* Err(MalformedResponse(err)) when the objects failed to parse with err,
\* Ok(the time of the single value, in seconds for Group52Var1 and in
\* milliseconds for Group52Var2) when the objects are exactly one such count
\* header with one value, and Err(UnexpectedResponseHeaders) otherwise.
C20_PromiseCompletedOnce ==
    IF master.alive THEN master.promise = <<>>
    ELSE /\ Len(master.promise) = 1
         /\ master.next = None
         /\ IF ~Get(master.response).objects.ok
            THEN /\ ~master.promise[1].ok
                 /\ master.promise[1].err.kind = "MalformedResponse"
                 /\ master.promise[1].err.err = Get(master.response).objects.err
            ELSE IF DelayHeaders(Get(master.response).objects.headers)
            THEN /\ master.promise[1].ok
                 /\ master.promise[1].value.nanos % 1000000 = 0
                 /\ Millis(master.promise[1].value) =
                      IF Get(master.response).objects.headers[1].variation = "Group52Var1"
                      THEN Get(master.response).objects.headers[1].values[1].time * 1000
                      ELSE Get(master.response).objects.headers[1].values[1].time
            ELSE /\ ~master.promise[1].ok
                 /\ master.promise[1].err.kind = "UnexpectedResponseHeaders"

\* a response whose only header is a Group52Var2 count header of two values
\* completed the promise with Err(UnexpectedResponseHeaders)
C20_CountOfTwoRejected ==
    /\ ~master.alive
    /\ Len(Get(master.response).objects.headers) = 1
    /\ Get(master.response).objects.headers[1].details = "Count"
    /\ Get(master.response).objects.headers[1].variation = "Group52Var2"
    /\ Len(Get(master.response).objects.headers[1].values) = 2
    /\ master.promise = <<Err(UnexpectedResponseHeaders)>>


---------------------------------------------------------------------------
(* OctetString construction *)

\* the slices of every length up to MaxOctets filled with zeros, with the
\* octets 1, 2, 3, ... or with the octets 7, 14, 21, ... (modulo 256)
Slices == { [i \in 1..n |-> (i * k) % 256] : n \in 0..MaxOctets, k \in {0, 1, 7} }

OctetStringCreate ==
    /\ ~IsSome(octet_string.result)
    /\ octet_string' = [octet_string EXCEPT !.result = Some(OctetStringNew(octet_string.input))]
    /\ UNCHANGED <<Session, link, master>>

InitOctets ==
    /\ SessionNew(Configs)
    /\ link = LinkNew(<<>>)
    /\ master = RestartTaskNew("ColdRestart")
    /\ octet_string \in { Octets(v) : v \in Slices }

NextOctets == OctetStringCreate

SpecOctets == InitOctets /\ [][NextOctets]_vars

\* C21: OctetString::new(v) is Err(ZeroLength) exactly when v is empty,
\* Err(MoreThan255Octets) exactly when v has more than 255 octets, and for
\* the lengths 1 to 255 it is Ok(s) with s.len() the length of v and
\* s.value() equal to v.
C21_OctetStringNew ==
    IsSome(octet_string.result) =>
      /\ (Get(octet_string.result).err = "ZeroLength") = (Len(octet_string.input) = 0)
      /\ (Get(octet_string.result).err = "MoreThan255Octets")
           = (Len(octet_string.input) > 255)
      /\ Get(octet_string.result).ok = (Len(octet_string.input) \in 1..255)
      /\ Get(octet_string.result).ok =>
           /\ OctetStringLen(Get(octet_string.result).s) = Len(octet_string.input)
           /\ OctetStringValue(Get(octet_string.result).s) = octet_string.input

\* an octet string of 255 octets that are not all zero was constructed
C21_LongestOctetString ==
    /\ IsSome(octet_string.result)
    /\ Get(octet_string.result).ok
    /\ OctetStringLen(Get(octet_string.result).s) = 255
    /\ OctetStringValue(Get(octet_string.result).s)[255] = 255


---------------------------------------------------------------------------
(* The record of the last valid request *)

\* the last step took a non-broadcast, non-confirm request out of the
\* transport reader and did not retain it
Accepted ==
    /\ pc # "Panicked"
    /\ IsSome(obs.rx)
    /\ Get(obs.rx).t = "Request"
    /\ Get(obs.rx).function # "Confirm"
    /\ ~IsSome(Get(obs.rx).broadcast)
    /\ reader.pending # obs.rx

\* C22: whenever a non-broadcast, non-confirm request has just been accepted,
\* in Idle or in UnsolConfirmWait, answered, malformed or deferred,
\* last_valid_request holds its sequence number.
C22_LastValidRequestSeq ==
    Accepted =>
      /\ IsSome(state.last_valid_request)
      /\ Get(state.last_valid_request).seq = Get(obs.rx).seq


SeriesRecorded(st) ==
    IsSome(st.last_valid_request) /\ IsSome(Get(st.last_valid_request).series)

\* C23: after every step, if last_valid_request records a series the session
\* is in SolConfirmWait; and a step taken in SolConfirmWait transmits no
\* solicited response other than the repetition of the awaited fragment and,
\* on its confirmation, the next fragment of the series.
C23_SeriesMeansSolConfirmWait ==
    [][/\ SeriesRecorded(state') => pc' = "SolConfirmWait"
       /\ pc = "SolConfirmWait" /\ IsSome(obs'.tx) /\ Get(obs'.tx).chan = "sol"
            => Get(obs'.tx).why \in {"repeat", "series"}]_vars

\* the half of C23 that concerns the responses composed during the wait
SolWaitComposesNothing ==
    [][pc = "SolConfirmWait" /\ IsSome(obs'.tx) /\ Get(obs'.tx).chan = "sol"
         => Get(obs'.tx).why \in {"repeat", "series"}]_vars


---------------------------------------------------------------------------
(* Duplicates and new requests during the solicited confirm wait *)

\* the step handles, in SolConfirmWait, a READ that duplicates the last
\* valid request
DuplicateReadInSolWait ==
    /\ pc = "SolConfirmWait"
    /\ IsSome(obs'.rx)
    /\ Get(obs'.rx).t = "Request"
    /\ Classify(state, Get(obs'.rx)) = "RepeatRead"

\* C24: a duplicate READ in SolConfirmWait leaves the session in
\* SolConfirmWait awaiting the same sequence number, makes no database call,
\* transmits again the response it is awaiting the confirmation of, and sets
\* the confirm deadline to now + confirm_timeout.
C24_DuplicateReadEchoed ==
    [][DuplicateReadInSolWait =>
         /\ pc' = "SolConfirmWait"
         /\ wait'.series = wait.series
         /\ obs'.calls = {}
         /\ database' = database
         /\ wait'.sol_deadline = now + config.confirm_timeout
         /\ IsSome(obs'.tx)
         /\ Get(obs'.tx).chan = "sol"
         /\ Get(obs'.tx).frame = Get(wait.frame)]_vars

\* C24 without the identity of the transmitted fragment
DuplicateReadKeepsWait ==
    [][DuplicateReadInSolWait =>
         /\ pc' = "SolConfirmWait"
         /\ wait'.series = wait.series
         /\ obs'.calls = {}
         /\ database' = database
         /\ wait'.sol_deadline = now + config.confirm_timeout
         /\ IsSome(obs'.tx)
         /\ Get(obs'.tx).chan = "sol"
         /\ Get(obs'.tx).why = "repeat"]_vars


\* the step handles, in SolConfirmWait, a fragment that is a new request
NewRequestInSolWait ==
    /\ pc = "SolConfirmWait"
    /\ IsSome(obs'.rx)
    /\ ExpectSolConfirm(state, Get(obs'.rx), Get(wait.series).ecsn) = "NewRequest"

\* such a step ends the wait, resets the database and retains the fragment
SolWaitAborted ==
    NewRequestInSolWait =>
      /\ pc' # "SolConfirmWait"
      /\ wait'.series = None
      /\ obs'.calls = {"reset"}
      /\ obs'.tx = None
      /\ reader'.pending = obs'.rx

\* the step takes the fragment that the transport reader holds
PendingTaken ==
    /\ IsSome(reader.pending)
    /\ obs'.rx = reader.pending
    /\ reader'.pending = None

\* C25: in SolConfirmWait a NewRead, NewNonRead, MalformedRequest,
\* RepeatNonRead or Broadcast fragment or a transport error ends the wait,
\* resets the database and is retained; a retained fragment is the next one
\* handled, it is handled by the idle-state processing, and no fragment is
\* handled twice.
C25_NewRequestAbortsSolWait ==
    [][/\ SolWaitAborted
       /\ IsSome(obs'.rx) => Get(obs'.rx).id = OldestUnhandled
       /\ PendingTaken => pc = "Idle"]_vars

\* C25 without the place where the retained fragment is handled
NewRequestRetainedOnce ==
    [][/\ SolWaitAborted
       /\ IsSome(obs'.rx) => Get(obs'.rx).id = OldestUnhandled]_vars


\* the step handles, in Idle, a READ that duplicates the last valid request
DuplicateReadInIdle ==
    /\ pc = "Idle"
    /\ IsSome(obs'.rx)
    /\ Get(obs'.rx).t = "Request"
    /\ Classify(state, Get(obs'.rx)) = "RepeatRead"

\* C26: a duplicate READ in Idle is answered by a response built anew: the
\* step calls database select and write_response_headers, transmits the
\* fragment that write_first_read_response produces for the request in the
\* current state, records this response in last_valid_request, and enters
\* SolConfirmWait exactly when the fragment asks for a confirmation.
C26_RepeatReadAnsweredAfresh ==
    [][DuplicateReadInIdle =>
         /\ obs'.calls = {"select", "write_response_headers"}
         /\ IsSome(obs'.tx)
         /\ Get(obs'.tx).chan = "sol"
         /\ Get(obs'.tx).frame.objects
              = SubSeq(WriteFirstReadResponse(W, Get(obs'.rx).seq,
                                              Get(obs'.rx).objects.headers).w.sol_tx_buffer,
                       1, Len(Get(obs'.tx).frame.objects))
         /\ database' = WriteFirstReadResponse(W, Get(obs'.rx).seq,
                                               Get(obs'.rx).objects.headers).w.database
         /\ IsSome(state'.last_valid_request)
         /\ IsSome(Get(state'.last_valid_request).response)
         /\ Frame(sol_tx_buffer', Get(Get(state'.last_valid_request).response))
              = Get(obs'.tx).frame
         /\ (pc' = "SolConfirmWait") = Get(obs'.tx).frame.header.control.con
         /\ pc' = "SolConfirmWait" =>
              Get(wait'.series).ecsn = Get(obs'.tx).frame.header.control.seq]_vars

\* a duplicate READ was answered from Idle after a new select, with a
\* fragment that carries an event, and the session awaits its confirmation
C26_FreshResponseAwaited ==
    /\ obs.dup
    /\ IsSome(obs.rx) /\ Get(obs.rx).function = "Read"
    /\ "select" \in obs.calls
    /\ pc = "SolConfirmWait"
    /\ IsSome(obs.tx)
    /\ EventsOf(Some(Get(obs.tx).frame)) # {}

---------------------------------------------------------------------------
(* Unsolicited series and the requests handled within them *)

\* a master that enables and disables unsolicited reporting, writes and reads
\* while unsolicited responses await their confirmation, with unbounded and
\* with bounded retries
FragsUnsol ==
    {Confirm(TRUE, 0), Confirm(TRUE, 1), EnableUnsolicited(1), DisableUnsolicited(2),
     WriteIin(0, 7, 0), ReadEvents(15)}

InitUnsol == InitWith({ ConfigOf(TRUE, TRUE, r) : r \in {None, Some(1)} })

NextUnsol == NextOver(FragsUnsol, MaxFrames)

SpecUnsol == InitUnsol /\ [][NextUnsol]_vars

\* the sequence number of the unsolicited response awaiting its confirm
AwaitedUnsolSeq == Get(wait.uns_response).header.control.seq

\* the step ended the series of a NULL unsolicited response
NullSeriesEnded == pc = "UnsolConfirmWait" /\ wait.is_null /\ pc' = "DeferredRead"

\* check_unsolicited runs in NullRequired
NullDue == pc = "CheckUnsolicited" /\ config.unsolicited /\ state.unsolicited.tag = "NullRequired"

\* C27: a NULL unsolicited response has retry counter 0 and is never
\* retransmitted; when its series ends without the matching unsolicited
\* CONFIRM the state stays NullRequired and the idle pass sleeps until now,
\* not until the retry delay; check_unsolicited in NullRequired sends a new
\* NULL response with the next unsolicited sequence number; the state becomes
\* Ready(None) only on the unsolicited CONFIRM with the awaited sequence
\* number, and that step does not call clear_written_events.
C27_NullNeverRetransmitted ==
    [][/\ (pc = "UnsolConfirmWait" /\ wait.is_null) =>
            /\ wait.retry_count = Some(0)
            /\ state.unsolicited_seq = SeqNext(AwaitedUnsolSeq)
            /\ ~UnsolSent'
       /\ NullSeriesEnded =>
            IF NullAcknowledged
            THEN /\ state'.unsolicited = Ready(None)
                 /\ "clear_written_events" \notin obs'.calls
                 /\ database' = database
            ELSE /\ state'.unsolicited.tag = "NullRequired"
                 /\ wait'.idle_deadline = Some(now)
       /\ state'.unsolicited_seq # state.unsolicited_seq => pc = "CheckUnsolicited"
       /\ (state.unsolicited.tag = "NullRequired" /\ state'.unsolicited.tag = "Ready") =>
            (NullSeriesEnded /\ NullAcknowledged)
       /\ (NullDue /\ pc' # pc) =>
            /\ pc' = "UnsolConfirmWait" /\ wait'.is_null
            /\ UnsolSent'
            /\ Get(obs'.tx).why = "new"
            /\ Get(obs'.tx).frame.objects = <<>>
            /\ Get(obs'.tx).frame.header.control.seq = state.unsolicited_seq
            /\ state'.unsolicited_seq = SeqNext(state.unsolicited_seq)]_vars

\* with unbounded retries, the NULL response with sequence number 0 was not
\* confirmed and a new NULL response with sequence number 1 was sent at the
\* instant the first series timed out
C27_SecondNullSent ==
    /\ config.max_unsolicited_retries = None
    /\ pc = "UnsolConfirmWait" /\ wait.is_null
    /\ UnsolSent /\ Get(obs.tx).why = "new"
    /\ Get(obs.tx).frame.header.control.seq = 1
    /\ now = ConfirmTimeout
    /\ ~obs.null_acked

\* C28: every transmission on the unsolicited channel during UnsolConfirmWait
\* is a retransmission equal to the first transmission of the series (control
\* field, sequence number, IIN and objects), and the series keeps its
\* response and its transmit buffer whatever solicited responses it sends.
C28_RetransmissionIdentical ==
    [][/\ (pc = "UnsolConfirmWait" /\ UnsolSent') =>
            /\ Get(obs'.tx).why = "retry"
            /\ Some(Get(obs'.tx).frame) = obs.unsol
       /\ (pc = "UnsolConfirmWait" /\ pc' = pc) =>
            /\ unsol_tx_buffer' = unsol_tx_buffer
            /\ wait'.uns_response = wait.uns_response
            /\ obs'.unsol = obs.unsol]_vars

\* an event-bearing unsolicited response was retransmitted with RESTART set
\* after a solicited response of the same wait was sent and RESTART cleared
C28_RetransmittedAfterSolicited ==
    /\ pc = "UnsolConfirmWait"
    /\ UnsolSent /\ Get(obs.tx).why = "retry"
    /\ obs.answered
    /\ Get(obs.tx).frame.objects # <<>>
    /\ "RESTART" \in Get(obs.tx).frame.header.iin
    /\ ~state.restart_iin_asserted

\* the step handled a new non-READ request in UnsolConfirmWait
NewNonReadInUnsolWait ==
    /\ pc = "UnsolConfirmWait"
    /\ IsSome(obs'.rx)
    /\ Get(obs'.rx).t = "Request"
    /\ Classify(state, Get(obs'.rx)) = "NewNonRead"

\* the step sent the solicited response to the request it handled
RequestAnswered ==
    /\ IsSome(obs'.tx)
    /\ Get(obs'.tx).chan = "sol" /\ Get(obs'.tx).why = "new"
    /\ Get(obs'.tx).frame.header.function = "Response"
    /\ Get(obs'.tx).frame.header.control.seq = Get(obs'.rx).seq
    /\ IsSome(state'.last_valid_request)
    /\ Get(state'.last_valid_request).seq = Get(obs'.rx).seq

\* the classes named by the headers of the request the step handled
ClassesNamed ==
    { ClassOfHeader(Get(obs'.rx).objects.headers[i].kind) :
        i \in 1..Len(Get(obs'.rx).objects.headers) }

\* C29: in UnsolConfirmWait a new DISABLE_UNSOLICITED is processed and
\* answered and ends the series with ReturnToIdle, without retransmission and
\* without clearing written events; every other new non-READ request is
\* answered while the wait, the awaited sequence number, the retry counter
\* and the confirm deadline stay as they are; a retransmission happens only
\* within a series that goes on.
C29_DisableUnsolicitedEndsSeries ==
    [][/\ NewNonReadInUnsolWait =>
            /\ RequestAnswered
            /\ ~UnsolSent'
            /\ IF Get(obs'.rx).function = "DisableUnsolicited"
               THEN /\ pc' = "DeferredRead"
                    /\ state'.enabled_unsolicited_classes =
                         state.enabled_unsolicited_classes \ ClassesNamed
                    /\ "clear_written_events" \notin obs'.calls
                    /\ EventsIn(database', "written") = EventsIn(database, "written")
                    /\ IF wait.is_null
                       THEN state'.unsolicited.tag = "NullRequired"
                       ELSE state'.unsolicited = Ready(Some(NewUnsolicitedRetryDeadline))
               ELSE /\ pc' = pc
                    /\ wait' = wait
       /\ (UnsolSent' /\ Get(obs'.tx).why = "retry") =>
            (pc = "UnsolConfirmWait" /\ pc' = pc)]_vars

\* a DISABLE_UNSOLICITED ended an event-bearing series whose events stay
\* written
C29_SeriesCancelled ==
    /\ pc = "DeferredRead"
    /\ IsSome(obs.rx) /\ Get(obs.rx).function = "DisableUnsolicited"
    /\ IsSome(obs.tx) /\ Get(obs.tx).chan = "sol"
    /\ state.unsolicited.tag = "Ready" /\ IsSome(state.unsolicited.deadline)
    /\ EventsIn(database, "written") # {}

\* a WRITE was answered in UnsolConfirmWait and the series goes on
C29_WriteAnsweredInWait ==
    /\ pc = "UnsolConfirmWait" /\ ~wait.is_null
    /\ IsSome(obs.rx) /\ Get(obs.rx).function = "Write"
    /\ IsSome(obs.tx) /\ Get(obs.tx).chan = "sol" /\ Get(obs.tx).why = "new"

---------------------------------------------------------------------------
(* IIN1.BROADCAST *)

\* the step transmitted through repeat_solicited or repeat_unsolicited only:
\* the stored header goes out again and get_response_iin is not called
Repeated ==
    /\ IsSome(obs'.tx)
    /\ \/ Get(obs'.tx).why = "retry"
       \/ Get(obs'.tx).why = "repeat" /\ pc \in {"SolConfirmWait", "UnsolConfirmWait"}

\* the step assembled a response: write_solicited or write_unsolicited ran
Assembled == IsSome(obs'.tx) /\ ~Repeated

CarriesBroadcast == "BROADCAST" \in Get(obs'.tx).frame.header.iin

\* the step handled the CONFIRM the session was waiting for
ConfirmMatched ==
    /\ IsSome(obs'.rx)
    /\ \/ /\ pc = "SolConfirmWait"
          /\ IsConfirm(Get(obs'.rx), FALSE)
          /\ Get(obs'.rx).seq = Get(wait.series).ecsn
       \/ /\ pc = "UnsolConfirmWait"
          /\ IsConfirm(Get(obs'.rx), TRUE)
          /\ Get(obs'.rx).seq = AwaitedUnsolSeq

\* the step handled a broadcast fragment
BroadcastProcessed ==
    /\ IsSome(obs'.rx)
    /\ Get(obs'.rx).t = "Request"
    /\ IsSome(Get(obs'.rx).broadcast)
    /\ pc # "SolConfirmWait"

\* an assembled response carries BROADCAST exactly when a broadcast is
\* remembered, and only a broadcast makes the session remember one
BitFollowsMemory ==
    /\ (Assembled /\ ~ConfirmMatched) =>
         (CarriesBroadcast <=> IsSome(state.last_broadcast_type))
    /\ (Assembled /\ ConfirmMatched) => ~CarriesBroadcast
    /\ (Assembled /\ CarriesBroadcast /\ state.last_broadcast_type # Some("Mandatory")) =>
         state'.last_broadcast_type = None
    /\ (state'.last_broadcast_type # state.last_broadcast_type
          /\ IsSome(state'.last_broadcast_type)) => BroadcastProcessed

\* the memory of a broadcast that is not Mandatory ends with the response
\* that carries BROADCAST
OptionalReported ==
    (IsSome(state.last_broadcast_type)
       /\ state.last_broadcast_type # Some("Mandatory")
       /\ state'.last_broadcast_type # state.last_broadcast_type) =>
      \/ BroadcastProcessed
      \/ Assembled /\ CarriesBroadcast

\* the memory of a Mandatory broadcast ends with the awaited CONFIRM
MandatoryKept ==
    (state.last_broadcast_type = Some("Mandatory")
       /\ state'.last_broadcast_type # state.last_broadcast_type) =>
      \/ BroadcastProcessed
      \/ ConfirmMatched

BroadcastBitFollowsMemory == [][BitFollowsMemory]_vars

\* C30: after a broadcast that is not Mandatory the next assembled response,
\* solicited or unsolicited, carries IIN1.BROADCAST and ends the memory of the
\* broadcast; after a Mandatory broadcast every assembled response carries it
\* until the awaited CONFIRM ends the memory; without a remembered broadcast
\* no assembled response carries it.
C30_BroadcastReportedOnce ==
    [][BitFollowsMemory /\ OptionalReported /\ MandatoryKept]_vars

---------------------------------------------------------------------------
(* Time synchronisation *)

RecordCurrentTime(seq) == Request("RecordCurrentTime", seq, ObjectsOk(<<>>))

\* WRITE of one Group50Var3 whose time is `room` below the largest timestamp
WriteG50v3(seq, room) ==
    Request("Write", seq, ObjectsOk(<<Hdr("Group50Var3", << <<room>> >>)>>))

\* a master that synchronises the clock of applications that accept, refuse
\* or do not support the time
FragsTime ==
    {RecordCurrentTime(1), WriteG50v3(2, MaxTime), WriteG50v3(3, 0),
     ReadEvents(15), Confirm(FALSE, 15), Confirm(TRUE, 0)}

InitTime ==
    InitWith({ [ConfigOf(TRUE, TRUE, Some(1)) EXCEPT !.write_absolute_time = r] :
                 r \in {"Ok", "InvalidValue", "NotSupported"} })

NextTime == NextOver(FragsTime, MaxFrames)

SpecTime == InitTime /\ [][NextTime]_vars

\* the step ran handle_write on a WRITE of a single Group50Var3
G50v3Handled ==
    /\ pc \in {"Idle", "UnsolConfirmWait"}
    /\ IsSome(obs'.rx)
    /\ Get(obs'.rx).t = "Request"
    /\ Get(obs'.rx).broadcast = None
    /\ Classify(state, Get(obs'.rx)) = "NewNonRead"
    /\ Get(obs'.rx).function = "Write"
    /\ Get(obs'.rx).objects.headers[1].kind = "Group50Var3"

\* the step answered a Group50Var3 WRITE without an IIN2 error bit after the
\* application set the clock
TimeSynchronised ==
    /\ G50v3Handled
    /\ app'.write_absolute_time = 1
    /\ IsSome(obs'.tx)
    /\ Get(obs'.tx).frame.header.iin \cap ErrorBits = {}

\* a Group50Var3 WRITE without a recorded time is a PARAMETER_ERROR and does
\* not reach the application
UnrecordedTimeRefused ==
    [][(G50v3Handled /\ ~IsSome(state.last_recorded_time)) =>
         /\ "PARAMETER_ERROR" \in Get(obs'.tx).frame.header.iin
         /\ app'.write_absolute_time = 0
         /\ state'.last_recorded_time = None]_vars

\* C31: a Group50Var3 WRITE without a recorded time is answered with
\* PARAMETER_ERROR and write_absolute_time is not called; last_recorded_time
\* is set only by RECORD_CURRENT_TIME, and is cleared by a successful
\* Group50Var3 time synchronisation and by nothing else.
C31_RecordedTimeClearedBySync ==
    [][/\ (G50v3Handled /\ ~IsSome(state.last_recorded_time)) =>
            /\ "PARAMETER_ERROR" \in Get(obs'.tx).frame.header.iin
            /\ app'.write_absolute_time = 0
       /\ TimeSynchronised => state'.last_recorded_time = None
       /\ (IsSome(state.last_recorded_time) /\ ~IsSome(state'.last_recorded_time)) =>
            TimeSynchronised]_vars

---------------------------------------------------------------------------
(* The retry deadline of unsolicited series *)

\* the step ended the series of an event-bearing unsolicited response
EventSeriesEnded == pc = "UnsolConfirmWait" /\ ~wait.is_null /\ pc' = "DeferredRead"

\* the step handled the unsolicited CONFIRM with the awaited sequence number
UnsolConfirmed ==
    /\ IsSome(obs'.rx) /\ IsConfirm(Get(obs'.rx), TRUE)
    /\ Get(obs'.rx).seq = AwaitedUnsolSeq

\* the retry deadline lies ahead
RetryPending ==
    /\ state.unsolicited.tag = "Ready"
    /\ IsSome(state.unsolicited.deadline)
    /\ now < Get(state.unsolicited.deadline)

\* C32: a non-NULL series that ends without its confirm leaves
\* Ready(Some(now + unsolicited_retry_delay)), a confirmed one leaves
\* Ready(None); while the retry deadline lies ahead the session is in no
\* unsolicited series, and no step calls write_unsolicited or transmits an
\* unsolicited fragment.
C32_RetryDelayGatesUnsolicited ==
    [][/\ EventSeriesEnded =>
            state'.unsolicited =
              IF UnsolConfirmed THEN Ready(None)
              ELSE Ready(Some(now + config.unsolicited_retry_delay))
       /\ RetryPending =>
            /\ pc # "UnsolConfirmWait" /\ pc' # "UnsolConfirmWait"
            /\ ~UnsolSent'
            /\ "write_unsolicited" \notin obs'.calls]_vars

\* an unconfirmed series has ended, its events are still due in an enabled
\* class, and the idle loop sleeps because the retry deadline lies ahead
C32_RetryAwaited ==
    /\ RetryPending
    /\ pc = "Select"
    /\ wait.idle_deadline = state.unsolicited.deadline
    /\ \E e \in Events :
         /\ database.ev[e] # "absent"
         /\ EventClass(e) \in state.enabled_unsolicited_classes

\* the series for the second event started at the instant the first series
\* was confirmed
C32_NextSeriesAtOnce ==
    /\ pc = "UnsolConfirmWait" /\ ~wait.is_null
    /\ UnsolSent /\ Get(obs.tx).why = "new"
    /\ AwaitedUnsolSeq = 2
    /\ state.unsolicited = Ready(None)
    /\ now = 0

---------------------------------------------------------------------------
(* Unsolicited classes *)

\* ENABLE_UNSOLICITED naming class 3 and a header that names no event class
EnableClass3AndClass0(seq) ==
    Request("EnableUnsolicited", seq,
            ObjectsOk(<<Hdr("Group60Var4", <<>>), Hdr("Group60Var1", <<>>)>>))

DisableClasses12(seq) ==
    Request("DisableUnsolicited", seq,
            ObjectsOk(<<Hdr("Group60Var2", <<>>), Hdr("Group60Var3", <<>>)>>))

\* a master that enables and disables classes, by request and by broadcast,
\* of outstations with and without unsolicited support
FragsClasses ==
    {Confirm(TRUE, 0), EnableUnsolicited(1), DisableUnsolicited(2),
     EnableClass3AndClass0(4), Broadcast("Optional", DisableClasses12(3)),
     ReadEvents(15)}

InitClasses == InitWith({ ConfigOf(u, TRUE, Some(1)) : u \in BOOLEAN })

NextClasses == NextOver(FragsClasses, MaxFrames)

SpecClasses == InitClasses /\ [][NextClasses]_vars

\* the step ran handle_enable_or_disable_unsolicited for a request
ClassRequestHandled ==
    /\ pc \in {"Idle", "UnsolConfirmWait"}
    /\ IsSome(obs'.rx)
    /\ Get(obs'.rx).t = "Request"
    /\ Get(obs'.rx).broadcast = None
    /\ Classify(state, Get(obs'.rx)) = "NewNonRead"
    /\ Get(obs'.rx).function \in {"EnableUnsolicited", "DisableUnsolicited"}

\* the classes named by a header kind: Group60Var2, 3 and 4 only
NamedClass(kind) ==
    IF kind = "Group60Var2" THEN {1}
    ELSE IF kind = "Group60Var3" THEN {2}
    ELSE IF kind = "Group60Var4" THEN {3}
    ELSE {}

NamedClasses(headers) ==
    UNION { NamedClass(headers[i].kind) : i \in 1..Len(headers) }

\* the class bits after a request, and whether its response reports
\* NO_FUNC_CODE_SUPPORT
ClassBitsFollowRequest ==
    ClassRequestHandled =>
      LET f == Get(obs'.rx)
          named == NamedClasses(f.objects.headers)
          other == \E i \in 1..Len(f.objects.headers) :
                      NamedClass(f.objects.headers[i].kind) = {}
          old == state.enabled_unsolicited_classes
          unsupported == "NO_FUNC_CODE_SUPPORT" \in Get(obs'.tx).frame.header.iin
      IN /\ IsSome(obs'.tx)
         /\ IF ~config.unsolicited
            THEN state'.enabled_unsolicited_classes = old /\ unsupported
            ELSE /\ state'.enabled_unsolicited_classes =
                      IF f.function = "EnableUnsolicited" THEN old \cup named
                      ELSE old \ named
                 /\ unsupported <=> other

\* ENABLE_UNSOLICITED and DISABLE_UNSOLICITED requests set and clear exactly
\* the named classes
ClassBitsSetAsNamed == [][ClassBitsFollowRequest]_vars

\* no series with objects starts while no class is enabled
NoSeriesStartsWhenDisabled ==
    [][(UnsolSent' /\ Get(obs'.tx).why = "new" /\ Get(obs'.tx).frame.objects # <<>>) =>
         state.enabled_unsolicited_classes # {}]_vars

\* C33: ENABLE_UNSOLICITED and DISABLE_UNSOLICITED set and clear exactly the
\* classes named by Group60Var2, 3 and 4 headers, any other header adds
\* NO_FUNC_CODE_SUPPORT, with unsolicited support disabled the request changes
\* nothing and is answered NO_FUNC_CODE_SUPPORT; no step transmits an
\* unsolicited fragment with objects while no class is enabled.
C33_ClassBitsAndNoEventsWhenDisabled ==
    [][/\ ClassBitsFollowRequest
       /\ (UnsolSent' /\ Get(obs'.tx).frame.objects # <<>>) =>
            state.enabled_unsolicited_classes # {}]_vars

---------------------------------------------------------------------------
(* The link reader over byte streams with broken frames *)

\* a frame header with an invalid length byte
LinkFrameBad == <<"sync", "g">>

LinkItemsBroken == {LinkFrame2, LinkFrameBad, <<"g">>}

\* every byte stream made of at most MaxLinkItems frames, broken frames and
\* stray bytes, cut at any byte
SourcesBroken ==
    UNION { { SubSeq(Concat(items), 1, k) : k \in 0..Len(Concat(items)) } :
            items \in UNION { [1..n -> LinkItemsBroken] : n \in 0..MaxLinkItems } }

InitFramer ==
    /\ SessionNew(Configs)
    /\ link \in { LinkNew(source) : source \in SourcesBroken }
    /\ master = RestartTaskNew("ColdRestart")
    /\ octet_string = Octets(<<>>)

SpecFramer == InitFramer /\ [][NextReader]_vars

\* the bytes the source has delivered so far
Delivered == SubSeq(link.source, 1, link.pos)

\* the window [begin, end) holds the delivered bytes that begin has not
\* passed: rewinding and compaction lose and repeat nothing
WindowPreserved ==
    /\ link.reader.end - link.reader.begin = link.pos - link.consumed
    /\ Unparsed(link.reader) = SubSeq(link.source, link.consumed + 1, link.pos)

\* C34: the bytes the parser has taken from its cursor are the bytes the
\* source delivered, in order and each at most once: they are a prefix of
\* the delivered bytes, and the window kept across rewinding and compaction
\* holds the delivered bytes that were not consumed.
C34_ParserFedSourceBytesOnce ==
    /\ WindowPreserved
    /\ Len(link.fed) <= link.pos
    /\ link.fed = SubSeq(Delivered, 1, Len(link.fed))

---------------------------------------------------------------------------
(* The bounds of the reader's window *)

\* the caller resets the reader between two reads: the buffered bytes are
\* given up
ReaderReset ==
    /\ link.pc = "Returned"
    /\ link.reader.end > 0
    /\ link' = [link EXCEPT !.reader = ReaderResetFields(@),
                            !.consumed = link.pos,
                            !.result = None]
    /\ UNCHANGED <<Session, master, octet_string>>

NextFramerReset == ReaderRead \/ ReaderIo \/ ReaderDrop \/ ReaderReset

SpecFramerReset == InitFramer /\ [][NextFramerReset]_vars

\* 0 <= begin <= end <= MAX_LINK_FRAME_LENGTH, and the destination of a
\* pending underlying read is not empty
WindowInBounds(l) ==
    /\ 0 <= l.reader.begin
    /\ l.reader.begin <= l.reader.end
    /\ l.reader.end <= MaxLinkFrameLength
    /\ l.pc = "Reading" => l.reader.end < MaxLinkFrameLength

\* the underlying read that has just completed delivered no byte
ZeroByteRead == link.pc = "Reading" /\ link'.result = Some("UnexpectedEof")

\* C38: in every state of the reader 0 <= begin <= end <= MAX_LINK_FRAME_LENGTH
\* and an underlying read is pending only with end < MAX_LINK_FRAME_LENGTH;
\* read() returns UnexpectedEof only when the source had no byte left to
\* deliver, and that read leaves begin and end as they were.
C38_WindowBoundsAndEof ==
    [][/\ WindowInBounds(link) /\ WindowInBounds(link')
       /\ link'.result = Some("UnexpectedEof") /\ link.result # Some("UnexpectedEof")
            => ZeroByteRead
       /\ ZeroByteRead => /\ link.pos = Len(link.source)
                          /\ link'.reader.begin = link.reader.begin
                          /\ link'.reader.end = link.reader.end]_vars

\* the source closes while the window holds the head of a frame that was
\* moved back to offset 0
C38_EofWithCompactedWindow ==
    /\ link.result = Some("UnexpectedEof")
    /\ link.reader.begin = 0
    /\ link.reader.end > 0
    /\ link.pos > MaxLinkFrameLength

---------------------------------------------------------------------------
(* Administrative messages *)

DecodeLevels == {"Nothing", "ObjectValues"}

\* OutstationMessage
ShutdownMessage == [kind |-> "Shutdown", level |-> "Nothing"]
SetDecodeLevel(level) == [kind |-> "Configuration", level |-> level]
OutstationMessages == {ShutdownMessage} \cup { SetDecodeLevel(l) : l \in DecodeLevels }

HandleConfigChange(cfg, message) == [cfg EXCEPT !.decode_level = message.level]

\* a session that treats every message as a configuration change
HandleNextMessageOk(cfg, message) ==
    [ok |-> TRUE, config |-> HandleConfigChange(cfg, message)]

\* Result<(), Shutdown> and the configuration the message leaves
HandleNextMessage(cfg, message) ==
    IF message.kind = "Shutdown"
    THEN [ok |-> FALSE, config |-> cfg]
    ELSE [ok |-> TRUE, config |-> HandleConfigChange(cfg, message)]

\* sleep_until receives a message while the task is suspended in the select!
\* of run_idle_state or in read_until: an Err ends run() through the `?` of
\* every caller, an Ok goes round the loop to the same sleep
SleepUntilMessage ==
    /\ Suspended
    /\ \E message \in OutstationMessages :
         LET r == HandleNextMessage(config, message)
         IN /\ config' = r.config
            /\ pc' = IF r.ok THEN pc ELSE "Shutdown"
            /\ obs' = [Quiet EXCEPT !.msg = Some([message |-> message, at |-> pc])]
    /\ app' = AppInit
    /\ UNCHANGED <<ret, state, sol_tx_buffer, unsol_tx_buffer, database, reader, now,
                   wait, runs, link, master, octet_string>>

NextMessages == NextUnsol \/ SleepUntilMessage

SpecMessages == InitWith({ConfigOf(TRUE, TRUE, Some(1))}) /\ [][NextMessages]_vars

\* the step received this kind of message
Received(kind) == IsSome(obs'.msg) /\ Get(obs'.msg).message.kind = kind

\* what a message leaves alone: the wait, its deadlines and the clock
WaitGoesOn == pc' = pc /\ ret' = ret /\ wait' = wait /\ now' = now /\ state' = state

\* C35: a Shutdown message received while the session is suspended in Idle,
\* in SolConfirmWait or in UnsolConfirmWait ends run() with
\* RunError::Shutdown and no fragment is transmitted from then on; a
\* decode-level change only updates decode_level: the wait goes on with the
\* same deadline.
C35_ShutdownEndsRunDecodeLevelDoesNot ==
    [][/\ Received("Shutdown") => pc' = "Shutdown" /\ obs'.tx = None
       /\ pc = "Shutdown" => pc' = "Shutdown" /\ obs'.tx = None
       /\ Received("Configuration") =>
            /\ config' = [config EXCEPT !.decode_level = Get(obs'.msg).message.level]
            /\ obs'.tx = None
            /\ WaitGoesOn]_vars

ShutdownAt(at) ==
    pc = "Shutdown" /\ IsSome(obs.msg) /\ Get(obs.msg).at = at

\* the session was shut down while it awaited the confirm of an unsolicited
\* response that still had a retry left
C35_ShutdownInUnsolWait ==
    /\ ShutdownAt("UnsolConfirmWait")
    /\ IsSome(wait.uns_response)
    /\ config.decode_level = "ObjectValues"

C35_ShutdownInSolWait == ShutdownAt("SolConfirmWait") /\ IsSome(wait.series)

C35_ShutdownInIdle == ShutdownAt("Select")

\* the decode level changed in a confirm wait whose deadline then expired
C35_WaitOutlivesDecodeLevel ==
    /\ pc = "UnsolConfirmWait"
    /\ config.decode_level = "ObjectValues"
    /\ now >= wait.uns_deadline

---------------------------------------------------------------------------
(* Duplicates of non-READ requests *)

Controls == ObjectsOk(<<Hdr("Group12Var1", << <<"LatchOn", 1>> >>)>>)

\* a master that sends controls, a freeze, a restart, writes of the time and
\* of IIN1.7 and a change of the unsolicited classes, and may send each twice
FragsDuplicates ==
    {Select(0, 1), Operate(1, 1),
     Request("DirectOperateNoResponse", 2, Controls),
     Request("ImmediateFreeze", 3, ObjectsOk(<<Hdr("Group20Var0", <<>>)>>)),
     Request("ColdRestart", 4, ObjectsOk(<<>>)),
     WriteIin(5, 7, 0),
     Request("Write", 6, ObjectsOk(<<Hdr("Group50Var1", << <<0>> >>)>>)),
     EnableUnsolicited(7),
     ReadEvents(15), Confirm(TRUE, 0), Confirm(FALSE, 15)}

InitDuplicates == InitWith({ ConfigOf(u, TRUE, Some(1)) : u \in BOOLEAN })

NextDuplicates == NextOver(FragsDuplicates, MaxFrames)

SpecDuplicates == InitDuplicates /\ [][NextDuplicates]_vars

\* the step handled, in Idle or in UnsolConfirmWait, a well-formed non-READ
\* request with the sequence number and the hash of the last valid request
DuplicateNonRead ==
    /\ pc \in {"Idle", "UnsolConfirmWait"}
    /\ IsSome(obs'.rx)
    /\ Get(obs'.rx).t = "Request"
    /\ Get(obs'.rx).function \notin {"Confirm", "Read"}
    /\ Get(obs'.rx).broadcast = None
    /\ Get(obs'.rx).objects.ok
    /\ IsSome(state.last_valid_request)
    /\ Get(state.last_valid_request).seq = Get(obs'.rx).seq
    /\ Get(state.last_valid_request).request_hash = Xxh64(Get(obs'.rx))

\* the response kept with the last valid request
LastResponse == Get(state.last_valid_request).response

\* no function handler ran: no callback, no database call, and nothing of
\* the session state that the handlers write has changed
NoHandlerRan ==
    /\ app' = AppInit
    /\ obs'.calls = {}
    /\ database' = database
    /\ state'.enabled_unsolicited_classes = state.enabled_unsolicited_classes
    /\ state'.restart_iin_asserted = state.restart_iin_asserted
    /\ state'.last_recorded_time = state.last_recorded_time
    /\ IsSome(state'.select) = IsSome(state.select)

\* the duplicate is answered by the stored response, or not at all when
\* there is none
EchoedOrSilent ==
    IF IsSome(LastResponse)
    THEN /\ IsSome(obs'.tx)
         /\ Get(obs'.tx).chan = "sol"
         /\ Get(obs'.tx).why = "repeat"
         /\ Get(obs'.tx).frame.header.control.seq = Get(LastResponse).header.control.seq
         /\ Get(obs'.tx).frame.header.function = Get(LastResponse).header.function
    ELSE obs'.tx = None

\* C36: a non-READ request that duplicates the last valid request (same
\* sequence number and hash) does not run its function handler again, in
\* Idle or in UnsolConfirmWait: no callback is made and no state is written,
\* the stored response is repeated, and a request that got no response gets
\* none again.
C36_DuplicateNonReadNotReExecuted ==
    [][DuplicateNonRead => NoHandlerRan /\ EchoedOrSilent]_vars

\* the last step handled a duplicate of this function from Idle
DuplicateInIdle(function) ==
    obs.dup /\ IsSome(obs.rx) /\ Get(obs.rx).function = function

\* a repeated DIRECT_OPERATE_NO_RESPONSE was handled from Idle and nothing
\* was sent
C36_DuplicateSilentInIdle ==
    DuplicateInIdle("DirectOperateNoResponse") /\ obs.tx = None

\* a repeated COLD_RESTART was answered with the stored response during the
\* wait for an unsolicited confirm
C36_DuplicateEchoedInWait ==
    /\ pc = "UnsolConfirmWait"
    /\ IsSome(obs.rx) /\ Get(obs.rx).function = "ColdRestart"
    /\ IsSome(obs.tx) /\ Get(obs.tx).why = "repeat"

---------------------------------------------------------------------------
(* The deferred-read slot *)

\* a master that sends READs, CONFIRMs and every other kind of fragment
FragsSlot ==
    {Confirm(TRUE, 0), Confirm(TRUE, 1), Confirm(FALSE, 15),
     ReadClass0(15), ReadEvents(14), WriteIin(0, 7, 0),
     Malformed("Write", 1, "UnknownGroupVariation"),
     Broadcast("Optional", WriteIin(0, 7, 0)),
     TransportError("UnknownFunction", 2)}

InitSlot == InitWith({ ConfigOf(TRUE, TRUE, r) : r \in {None, Some(1)} })

NextSlot == NextOver(FragsSlot, MaxFrames)

SpecSlot == InitSlot /\ [][NextSlot]_vars

\* the step handled a fragment of the master in UnsolConfirmWait
HandledInUnsolWait == pc = "UnsolConfirmWait" /\ IsSome(obs'.rx)

IsRead(f) ==
    f.t = "Request" /\ f.function = "Read" /\ f.broadcast = None /\ f.objects.ok

IsAnyConfirm(f) == f.t = "Request" /\ f.function = "Confirm"

\* the slot holds READ f
SlotHolds(st, f) ==
    /\ IsSome(st.deferred_read)
    /\ Get(st.deferred_read).seq = f.seq
    /\ Get(st.deferred_read).hash = Xxh64(f)
    /\ Get(st.deferred_read).headers = f.objects.headers

\* the step built no response to a READ
NoReadAnswered == obs'.calls \cap {"select", "write_response_headers"} = {}

\* a READ takes the slot, a CONFIRM leaves it, anything else empties it
SlotFollowsWait ==
    HandledInUnsolWait =>
      IF IsRead(Get(obs'.rx))
      THEN SlotHolds(state', Get(obs'.rx)) /\ obs'.tx = None
      ELSE IF IsAnyConfirm(Get(obs'.rx))
      THEN state'.deferred_read = state.deferred_read /\ obs'.tx = None
      ELSE state'.deferred_read = None /\ NoReadAnswered

\* the slot is filled in UnsolConfirmWait only
SlotFilledInWaitOnly ==
    (IsSome(state'.deferred_read) /\ state'.deferred_read # state.deferred_read)
      => HandledInUnsolWait

\* the READ that survives the wait is answered by the step that follows the
\* wait, and the slot is empty when the confirm wait of that answer ends
SlotAnsweredOnce ==
    /\ (pc = "UnsolConfirmWait" /\ pc' # pc /\ pc' # "Panicked") => pc' = "DeferredRead"
    /\ (pc = "DeferredRead" /\ pc' # pc /\ IsSome(state.deferred_read)) =>
         /\ IsSome(obs'.tx)
         /\ Get(obs'.tx).chan = "sol"
         /\ Get(obs'.tx).why = "new"
         /\ Get(obs'.tx).frame.header.control.seq = Get(state.deferred_read).seq
         /\ "write_response_headers" \in obs'.calls
         /\ pc' \in {"SolConfirmWait", "Select"}
    /\ (pc = "SolConfirmWait" /\ IsSome(state.deferred_read)) =>
         /\ pc' \in {"SolConfirmWait", "Select"}
         /\ IsSome(obs'.tx) => Get(obs'.tx).why \in {"repeat", "series"}
         /\ state'.deferred_read \in {state.deferred_read, None}

\* the slot is empty when the idle loop suspends
SlotEmptyInIdle == pc' = "Select" => state'.deferred_read = None

\* C37: the deferred-read slot holds the most recent READ received in
\* UnsolConfirmWait: a later READ replaces it, any other request handled in
\* the wait empties it without answering it, a CONFIRM leaves it alone; the
\* READ that survives the wait is answered once, right after the wait, and
\* the slot is empty whenever the idle loop suspends.
C37_DeferredReadSlot ==
    [][SlotFollowsWait /\ SlotFilledInWaitOnly /\ SlotAnsweredOnce /\ SlotEmptyInIdle]_vars

\* the READ with sequence number 14 was deferred in the wait, which two
\* other fragments went through, and was answered after it
C37_LaterReadAnswered ==
    /\ pc \in {"Select", "SolConfirmWait"}
    /\ reader.next_id = 4
    /\ IsSome(obs.tx)
    /\ Get(obs.tx).chan = "sol"
    /\ Get(obs.tx).why = "new"
    /\ Get(obs.tx).frame.header.control.seq = 14
    /\ obs.rx = None

\* a deferred READ was discarded by a transport error
C37_ReadDiscarded ==
    /\ pc = "UnsolConfirmWait"
    /\ IsSome(obs.rx) /\ Get(obs.rx).t = "Error"
    /\ reader.next_id = 3
    /\ state.deferred_read = None
    /\ state.last_valid_request = None

---------------------------------------------------------------------------
(* reset() between communication sessions *)

\* a master that selects and operates, records the time, enables classes,
\* broadcasts and reads, over connections that break
FragsSessions ==
    {Select(0, 1), Operate(1, 1), EnableUnsolicited(2), RecordCurrentTime(3),
     Broadcast("Optional", WriteIin(0, 7, 0)),
     ReadEvents(15), Confirm(TRUE, 0), Confirm(FALSE, 15)}

NextSessions == NextOver(FragsSessions, MaxFrames) \/ Reset

SpecSessions == Init /\ [][NextSessions]_vars

\* the step is a reset() followed by the next run()
ResetStep == runs' = runs + 1

\* the fields reset() clears and the fields it keeps
ResetClears ==
    /\ state'.last_valid_request = None
    /\ state'.select = None
    /\ state'.deferred_read = None

ResetKeeps ==
    /\ state'.restart_iin_asserted = state.restart_iin_asserted
    /\ state'.enabled_unsolicited_classes = state.enabled_unsolicited_classes
    /\ state'.unsolicited = state.unsolicited
    /\ state'.unsolicited_seq = state.unsolicited_seq
    /\ state'.last_recorded_time = state.last_recorded_time
    /\ state'.last_broadcast_type = state.last_broadcast_type

RequestsOfSessions == { f \in FragsSessions : f.function # "Confirm" /\ f.broadcast = None }

\* after the reset every request, the one handled last included, is new
RepeatIsNew ==
    \A f \in RequestsOfSessions :
      Classify(state', f) \in {"NewRead", "NewNonRead"}

\* after the reset an OPERATE is answered with status NoSelect and no
\* callback
OperateFindsNoSelect ==
    LET r == HandleOperate(World(state', database', sol_tx_buffer', AppInit),
                           1, reader.next_id, Operate(1, 1).objects.headers)
    IN /\ r.w.app = AppInit
       /\ r.response =
            ObjectResponse(World(state', database', sol_tx_buffer', AppInit), 1,
                           StatusTokens(ControlPoints(Operate(1, 1).objects.headers),
                                        "NoSelect"),
                           StatusIin("NoSelect")).response

\* C39: reset() clears last_valid_request, the SelectState and the deferred
\* read and nothing else of the session state; after it a repeat of the
\* previous request is classified as new and an OPERATE finds no SelectState.
C39_ResetClearsPerConnectionState ==
    [][ResetStep => ResetClears /\ ResetKeeps /\ RepeatIsNew /\ OperateFindsNoSelect]_vars

\* an OPERATE was refused in the second run with the classes enabled in the
\* first run still enabled
C39_OperateAfterReset ==
    /\ runs = 2
    /\ IsSome(obs.rx) /\ Get(obs.rx).function = "Operate"
    /\ IsSome(obs.tx)
    /\ app.operate = 0
    /\ state.enabled_unsolicited_classes # {}

---------------------------------------------------------------------------
(* Termination of the confirm waits *)

\* a master that confirms with matching and non-matching sequence numbers,
\* repeats its READ and sends other requests
FragsWaits ==
    {Confirm(TRUE, 0), Confirm(TRUE, 1), Confirm(FALSE, 15), Confirm(FALSE, 0),
     EnableUnsolicited(1), ReadEvents(15), WriteIin(0, 7, 0)}

InitWaits == InitWith({ ConfigOf(TRUE, TRUE, Some(n)) : n \in 0..1 })

NextWaits == NextOver(FragsWaits, MaxFrames)

\* time advances and a timer that has expired fires
SpecWaits ==
    InitWaits /\ [][NextWaits]_vars
    /\ WF_vars(Tick) /\ WF_vars(SolTimeout) /\ WF_vars(UnsolTimeout)

InSolWait(d) == pc = "SolConfirmWait" /\ wait.sol_deadline = d

InUnsolWait(d, k) == pc = "UnsolConfirmWait" /\ wait.uns_deadline = d /\ wait.sent = k

\* a confirm timer never runs for longer than confirm_timeout
TimersBounded ==
    /\ pc' = "SolConfirmWait" => wait'.sol_deadline <= now' + config.confirm_timeout
    /\ pc' = "UnsolConfirmWait" => wait'.uns_deadline <= now' + config.confirm_timeout

\* within SolConfirmWait the timer is restarted only by a duplicate READ or
\* by the next fragment of the series
SolTimerRestarts ==
    (pc = "SolConfirmWait" /\ pc' = pc /\ wait'.sol_deadline # wait.sol_deadline) =>
      /\ IsSome(obs'.rx)
      /\ \/ Classify(state, Get(obs'.rx)) = "RepeatRead"
         \/ /\ IsConfirm(Get(obs'.rx), FALSE)
            /\ Get(obs'.rx).seq = Get(wait.series).ecsn
            /\ IsSome(obs'.tx) /\ Get(obs'.tx).why = "series"

\* a fragment handled in UnsolConfirmWait leaves the timer and the retries
UnsolFragmentsKeepTimer ==
    (pc = "UnsolConfirmWait" /\ pc' = pc /\ IsSome(obs'.rx)) => wait' = wait

\* the confirm timer of the unsolicited series expired in this step
UnsolTimedOut ==
    /\ pc = "UnsolConfirmWait"
    /\ obs'.rx = None
    /\ pc' # pc \/ wait' # wait

\* the (N+1)-th timeout of a series ends it
RetriesRunOut ==
    /\ pc' = "UnsolConfirmWait" =>
         wait'.sent <= Get(config.max_unsolicited_retries) + 1
    /\ (UnsolTimedOut /\ wait.sent = Get(config.max_unsolicited_retries) + 1) =>
         pc' # "UnsolConfirmWait"
    /\ (UnsolTimedOut /\ pc' = pc) =>
         /\ wait'.sent = wait.sent + 1
         /\ wait'.retry_count = Some(Get(wait.retry_count) - 1)

\* a wait that ends gives way to the rest of the idle pass
WaitsReturnToIdle ==
    (pc \in {"SolConfirmWait", "UnsolConfirmWait"} /\ pc' # pc) =>
      pc' \in {"CheckUnsolicited", "DeferredRead", "Select"}

\* C40: every confirm wait ends as time advances. A timer runs for
\* confirm_timeout at most; in SolConfirmWait only a duplicate READ (or the
\* next fragment of the series) restarts it, in UnsolConfirmWait no fragment
\* does, and with max_unsolicited_retries = Some(N) the series has at most
\* N+1 timeouts; a wait whose timer can expire is left or has its timer
\* restarted, and a wait that is left returns to the idle loop.
C40_ConfirmWaitsTerminate ==
    /\ [][/\ TimersBounded /\ SolTimerRestarts /\ UnsolFragmentsKeepTimer
          /\ RetriesRunOut /\ WaitsReturnToIdle]_vars
    /\ \A d \in 0..MaxTime : InSolWait(d) ~> ~InSolWait(d)
    /\ \A d \in 0..MaxTime : \A k \in 1..2 : InUnsolWait(d, k) ~> ~InUnsolWait(d, k)

\* a series used its retry and timed out, and the session then handled a
\* WRITE from Idle
C40_RequestHandledAfterWait ==
    /\ pc = "CheckUnsolicited"
    /\ config.max_unsolicited_retries = Some(1)
    /\ state.unsolicited.tag = "Ready"
    /\ IsSome(state.unsolicited.deadline)
    /\ IsSome(obs.rx) /\ Get(obs.rx).function = "Write"
    /\ IsSome(obs.tx) /\ Get(obs.tx).chan = "sol"
    /\ now = MaxTime

\* a duplicate READ restarted the timer of a solicited confirm wait
C40_SolWaitProlonged ==
    /\ pc = "SolConfirmWait"
    /\ obs.dup
    /\ wait.sol_deadline = MaxTime

====
